---- MODULE Spec2Model ----
(***************************************************************************)
(* Session/protocol orchestration layer of the Arabic healthcare voice     *)
(* service: admission control (rate limiter, token service, session        *)
(* registry) of app/main.py and the JSON telephony protocol of             *)
(* app/maqsam_handler.py.                                                  *)
(*                                                                         *)
(* Every handler is an asyncio task.  A task runs without interruption     *)
(* from one await to the next, so each action below is the code between    *)
(* two awaits of one handler.  The websocket object and the speech/codec   *)
(* tools are the environment: a receive delivers a frame, raises           *)
(* WebSocketDisconnect or raises another error; a conversion or synthesis  *)
(* succeeds or fails.                                                      *)
(***************************************************************************)
EXTENDS Integers, Sequences, FiniteSets, TLC

(***************************************************************************)
(* Bounds of the model.  MAX_CONCURRENT_SESSIONS and RATE_LIMIT_PER_MINUTE *)
(* are the deployment's configuration (main.py:33-34 read them from the    *)
(* environment, defaults 10 and 60); they are scaled down here.  NumConns  *)
(* connections are made to any endpoint in Spec, NumSecureConns to         *)
(* /ws/secure in SpecSecure, NumMaqsamConns to /ws/maqsam in SpecMaqsam.   *)
(***************************************************************************)
NumConns == 2
NumSecureConns == 3
MAX_CONCURRENT_SESSIONS == 2
RATE_LIMIT_PER_MINUTE == 2
MaxTicks == 1
MaxRateTicks == 2
MaxTurns == 2
NumMaqsamConns == 1
MaxSubmits == 2
MaxQuestions == 2
MaxResponses == 2
MaxLen == 3
MaxWords == 3
MaxTokenTicks == 2
MaxOutputSize == 45

(***************************************************************************)
(* Program constants.                                                      *)
(***************************************************************************)
RATE_WINDOW == 60
TOKEN_TTL == 3600
CLOSE_UNAUTHORIZED == 401
CLOSE_TOO_MANY == 429
CLOSE_PROTOCOL_ERROR == 1002
HTTP_UNAUTHORIZED == 401
HTTP_TOO_MANY == 429
HTTP_OK == 200
WAV_HEADER_SIZE == 44

\* The websocket connections made over the run, each identified by
\* id(websocket).
Conns == 1..NumConns
SecureConns == 1..NumSecureConns
MaqsamConns == 1..NumMaqsamConns
AllConns == Conns \cup SecureConns \cup MaqsamConns

ClientIPs == {"10.0.0.1", "10.0.0.2"}

\* Seconds by which the clock may advance in one step.
TickSteps == {1, TOKEN_TTL}

\* The endpoints that keep a session record.  /ws/secure/healthcare and
\* /ws/telephony/healthcare repeat the admission checks of /ws/secure and
\* /ws/telephony (main.py:617-661, 954-971) and are not modelled apart.
RelayEndpoints == {"secure", "telephony"}
Endpoints == RelayEndpoints \cup {"maqsam"}

\* Python's None, for a string-valued setting or parameter.
None == "<None>"

\* The shared secret a telephony peer is configured with, and what a peer
\* may present in the token parameter.
TELEPHONY_SECRET == "telephony-secret"
PresentedSecrets == {None, TELEPHONY_SECRET, "wrong-secret"}

\* SECRET_KEY, the credential of the HTTP operations.
SECRET_KEY == "secret-key"

\* What TELEPHONY_TOKEN may be: unset, empty or set.
ConfiguredSecrets == {None, "", TELEPHONY_SECRET}

NoSid == [kind |-> "none", t |-> 0, a |-> 0]
NoCred == [kind |-> "none", session_id |-> NoSid, client_ip |-> None, exp |-> 0, iat |-> 0,
           value |-> None]
ForgedToken == [kind |-> "forged", session_id |-> NoSid, client_ip |-> None, exp |-> 0, iat |-> 0,
                value |-> None]

\* f"auth_{int(time.time())}", f"internal_{id(websocket)}",
\* f"telephony_{int(time.time())}_{id(websocket)}", ...
SessionId(kind, t, a) == [kind |-> kind, t |-> t, a |-> a]

SecretCred(v) == [kind |-> "secret", session_id |-> NoSid, client_ip |-> None, exp |-> 0, iat |-> 0,
                  value |-> v]

\* The frames a JSON telephony peer may send: the protocol's message types,
\* a type the handler does not know, text that is not JSON, JSON that is
\* not an object, and a call.dtmf or call.mark message whose data field is
\* not an object.
FrameKinds == {"session.setup", "audio.input", "call.dtmf", "call.mark", "unknown",
               "malformed", "nonobject", "badshape"}

\* The data of a call.dtmf message: a digit, no digit at all (None), or
\* data that is not an object (null, a string).
NotAnObject == "<not an object>"

DtmfData == {"1", "#", None, NotAnObject}

\* How an audio.input turn goes, by the first step that does not succeed.
AudioOutcomes == {"empty", "bad_base64", "inbound_fail", "processing_error",
                  "no_reply_audio", "outbound_fail", "streamed"}

\* The outcomes in which process_voice_interaction returned.
Interacted == {"no_reply_audio", "outbound_fail", "streamed"}

\* The call context a session.setup message may declare under data.context;
\* {} stands for a message that declares none, and is what the handler's
\* session context starts with.
EmptyContext == "{}"
SetupContexts == {EmptyContext, "caller-context"}

\* <cwd>/response.wav: whether it exists and whose synthesis wrote it.
NoFile == [exists |-> FALSE, owner |-> 0]

\* What process_voice_interaction yields: a reply text with its audio, a
\* reply text without audio, or neither.
Yields == {"audio", "no_audio", "no_text"}

NoRelayTurn == [yield |-> "none", reply |-> "none", fatal |-> FALSE, close_errors |-> 0]

\* The healthcare_context a healthcare relay starts with: the fields the
\* handler reads or writes afterwards (responses is a dict, here its keys).
NewHealthcareContext ==
    [current_question |-> "initial_greeting", patient_data |-> [responses |-> {}]]

\* The session context as the handler creates it, reduced to the keys the
\* questionnaire functions read (none of them is set at creation).
EmptySurvey == [session_id |-> "maqsam"]

NoOp == [op |-> "none", outcome |-> "none", result |-> FALSE, raised |-> FALSE, to_peer |-> 0,
         answers |-> <<>>]

\* An optional value: <<>> is Python's None, <<v>> is the value v.
NoValue == <<>>

NoNorm == [text |-> <<>>, question_type |-> "none", done |-> FALSE, out_text |-> <<>>,
           value |-> NoValue]

NoHeader == [scheme |-> None, value |-> None]

NoRequest == [conn |-> 0, authorization |-> NoHeader, token |-> None]

NoTok == [session_id |-> NoSid, client_ip |-> None, issued |-> FALSE, token |-> NoCred,
          verified |-> FALSE, presented |-> NoCred, verified_at |-> 0, payload |-> NoCred]

NoLogic == [user_text |-> <<>>, done |-> FALSE, reply |-> "none"]

NoConv == [available |-> FALSE, exit |-> "zero", size |-> 0, decoder |-> "none",
           result |-> NoValue, running |-> FALSE]

NoTurn == [msg |-> "none", outcome |-> "none", speech |-> FALSE, errors |-> 0, streams |-> 0,
           digit |-> None]

VARIABLES
    now,                  \* time.time(), in whole seconds
    ticks,                \* number of clock steps taken (bounded by MaxTicks)
    telephony_token,      \* TELEPHONY_TOKEN: the configured shared secret or None
    active_sessions,      \* main.active_sessions: session id -> record
    maqsam_sessions,      \* MaqsamProtocolHandler.active_sessions
    session_rate_limits,  \* main.session_rate_limits: client ip -> timestamps
    tokens,               \* the session tokens issued so far
    http,                 \* the last HTTP response: [op, status]
    pc,                   \* where each connection's handler task stands
    ep,                   \* the endpoint each connection was made to
    cred,                 \* the credential each connection presented
    sid,                  \* the handler's local session_id
    accepted,             \* websocket.accept() has completed
    close_code,           \* code of the handler's websocket.close(), 0 if none
    processed,            \* the handler has processed an audio frame
    cred_valid,           \* the credential was valid when it was presented
    id_collision,         \* a new session was given the id of an earlier session
    admitted,             \* client ip -> times at which check_rate_limit allowed
    verdicts,             \* client ip -> the verdicts of its last two checks
    rate_verdict,         \* the last call of check_rate_limit: [key, allow]
    first_msg,            \* JSON telephony: kind of the first frame received
    n_ready,              \* JSON telephony: session.ready messages sent
    loop_entered,         \* JSON telephony: _process_audio_loop was entered
    turns,                \* JSON telephony: frames received in the loop
    turn,                 \* JSON telephony: what the last turn of the loop did
    collected,            \* JSON telephony: len(session_context["collected_responses"])
    dtmf_inputs,          \* JSON telephony: session_context["dtmf_inputs"]
    declared,             \* JSON telephony: the context the session.setup message declared
    call_context,         \* JSON telephony: session_context["call_context"]
    wav,                  \* the file <cwd>/response.wav every synthesis writes
    held,                 \* relay: whose payload the handler has read and is sending
    last,                 \* relay: what the handler's last turn did
    crossed,              \* relay: the ways one session touched another's payload
    healthcare_context,   \* healthcare relay: the session's healthcare_context
    survey,               \* questionnaire: a telephony session's session_context
    posts,                \* questionnaire: POST requests sent to the survey backend
    submits,              \* questionnaire: calls of _submit_survey_responses
    last_op,              \* questionnaire: the last call and what it returned
    norm,                 \* questionnaire: the last text normalised and the result
    logic,                \* turn logic: a transcription and the reply computed for it
    conv,                 \* codec: what the tool does and what a decoder returned
    tok,                  \* token service: a token issued and what verifying it gave
    request               \* JSON telephony: the last handshake's header and query token

admission_vars == <<now, ticks, telephony_token, active_sessions, maqsam_sessions,
                    session_rate_limits, tokens, http, pc, ep, cred, sid, accepted,
                    close_code, processed, cred_valid, id_collision>>

\* History of the rate limiter's verdicts, kept in SpecRate.
rate_history == <<admitted, verdicts, rate_verdict>>

\* The JSON telephony handler's progress on each connection.
protocol_vars == <<first_msg, n_ready, loop_entered, turns, turn, collected, dtmf_inputs,
                   declared, call_context>>

\* The relay handlers' turns and the synthesized audio file they share.
turn_vars == <<wav, held, last, crossed, healthcare_context>>

\* A session's questionnaire and the calls made on it.
survey_vars == <<survey, posts, submits, last_op, norm>>

\* The questionnaire turn logic and the codec tool, each applied to an input.
tool_vars == <<logic, conv, tok, request>>

\* What the admission actions leave alone.
aside == <<rate_history, protocol_vars, turn_vars, survey_vars, tool_vars>>

vars == <<admission_vars, rate_history, protocol_vars, turn_vars, survey_vars, tool_vars>>

(***************************************************************************)
(* Token service.                                                          *)
(***************************************************************************)
\* generate_session_token: the payload signed with SECRET_KEY.
generate_session_token(session_id, client_ip, t) ==
    [kind |-> "jwt", session_id |-> session_id, client_ip |-> client_ip, exp |-> t + TOKEN_TTL,
     iat |-> t, value |-> None]

\* verify_token that still accepts a token at the second of its expiry.
verify_token_at_expiry(token, t) ==
    IF token.kind = "jwt" /\ t <= token.exp THEN token ELSE NoCred

\* verify_token: the payload, or NoCred (None) for a bad signature or an
\* expired token (PyJWT rejects a token once exp <= now).
verify_token(token, t) ==
    IF token.kind = "jwt" /\ t < token.exp THEN token ELSE NoCred

\* verify_telephony_token without the test for a missing configuration.
verify_telephony_token_unconfigured(token, configured) == token = configured

\* verify_telephony_token: False when no secret is configured (None or ""),
\* else plain equality with the configured value.
verify_telephony_token(token, configured) ==
    IF configured = None \/ configured = ""
    THEN FALSE
    ELSE token = configured

(***************************************************************************)
(* Rate limiter.                                                           *)
(***************************************************************************)
Prune(stamps, t) == SelectSeq(stamps, LAMBDA ts : t - ts < RATE_WINDOW)

\* A limiter that denies only above the limit.
check_rate_limit_above(limits, client_ip, t) ==
    LET pruned == IF client_ip \in DOMAIN limits THEN Prune(limits[client_ip], t) ELSE <<>>
        put(s) == [k \in DOMAIN limits \cup {client_ip} |->
                      IF k = client_ip THEN s ELSE limits[k]]
    IN  IF Len(pruned) > RATE_LIMIT_PER_MINUTE
        THEN [allow |-> FALSE, limits |-> put(pruned)]
        ELSE [allow |-> TRUE, limits |-> put(Append(pruned, t))]

\* A limiter whose admitted check overwrites the bucket with its own
\* timestamp (an update computed from a stale read of the bucket).
check_rate_limit_resets(limits, client_ip, t) ==
    LET pruned == IF client_ip \in DOMAIN limits THEN Prune(limits[client_ip], t) ELSE <<>>
        put(s) == [k \in DOMAIN limits \cup {client_ip} |->
                      IF k = client_ip THEN s ELSE limits[k]]
    IN  IF Len(pruned) >= RATE_LIMIT_PER_MINUTE
        THEN [allow |-> FALSE, limits |-> put(pruned)]
        ELSE [allow |-> TRUE, limits |-> put(<<t>>)]

\* A limiter that records the denied checks too.
check_rate_limit_counts_denied(limits, client_ip, t) ==
    LET pruned == IF client_ip \in DOMAIN limits THEN Prune(limits[client_ip], t) ELSE <<>>
        put(s) == [k \in DOMAIN limits \cup {client_ip} |->
                      IF k = client_ip THEN s ELSE limits[k]]
    IN  IF Len(pruned) >= RATE_LIMIT_PER_MINUTE
        THEN [allow |-> FALSE, limits |-> put(Append(pruned, t))]
        ELSE [allow |-> TRUE, limits |-> put(Append(pruned, t))]

\* check_rate_limit: prune, create the bucket, deny at the limit, else append.
\* Returns the verdict and the new session_rate_limits.
check_rate_limit(limits, client_ip, t) ==
    LET pruned == IF client_ip \in DOMAIN limits THEN Prune(limits[client_ip], t) ELSE <<>>
        put(s) == [k \in DOMAIN limits \cup {client_ip} |->
                      IF k = client_ip THEN s ELSE limits[k]]
    IN  IF Len(pruned) >= RATE_LIMIT_PER_MINUTE
        THEN [allow |-> FALSE, limits |-> put(pruned)]
        ELSE [allow |-> TRUE, limits |-> put(Append(pruned, t))]

(***************************************************************************)
(* Session registry.                                                       *)
(***************************************************************************)
ActiveCount(sessions) == Cardinality({s \in DOMAIN sessions : sessions[s].active})

\* check_concurrent_sessions
check_concurrent_sessions(sessions) == ActiveCount(sessions) < MAX_CONCURRENT_SESSIONS

\* sessions[session_id] = {"active": True, "created_at": ..., ...}; the code
\* reads no field of a record but "active", the only one kept here.
Register(sessions, session_id) ==
    [s \in DOMAIN sessions \cup {session_id} |->
        IF s = session_id
        THEN [active |-> TRUE]
        ELSE sessions[s]]

\* An unregistering that deletes the record (del sessions[session_id]).
MarkInactive_removes(sessions, session_id) ==
    [s \in DOMAIN sessions \ {session_id} |-> sessions[s]]

\* if session_id in sessions: sessions[session_id]["active"] = False
MarkInactive(sessions, session_id) ==
    [s \in DOMAIN sessions |->
        IF s = session_id THEN [sessions[s] EXCEPT !.active = FALSE] ELSE sessions[s]]

(***************************************************************************)
(* Initial state: the process has started, nothing is connected.  The      *)
(* questionnaire state is set by each specification.                       *)
(***************************************************************************)
AdmissionInit ==
    /\ now = 0
    /\ ticks = 0
    /\ telephony_token \in ConfiguredSecrets
    /\ active_sessions = <<>>
    /\ maqsam_sessions = <<>>
    /\ session_rate_limits = <<>>
    /\ tokens = {}
    /\ http = [op |-> "none", status |-> 0]
    /\ pc = [c \in AllConns |-> "idle"]
    /\ ep = [c \in AllConns |-> "none"]
    /\ cred = [c \in AllConns |-> NoCred]
    /\ sid = [c \in AllConns |-> NoSid]
    /\ accepted = [c \in AllConns |-> FALSE]
    /\ close_code = [c \in AllConns |-> 0]
    /\ processed = [c \in AllConns |-> FALSE]
    /\ cred_valid = [c \in AllConns |-> FALSE]
    /\ id_collision = FALSE
    /\ admitted = [k \in ClientIPs |-> <<>>]
    /\ verdicts = [k \in ClientIPs |-> <<>>]
    /\ rate_verdict = [key |-> None, allow |-> FALSE]
    /\ first_msg = [c \in AllConns |-> "none"]
    /\ n_ready = [c \in AllConns |-> 0]
    /\ loop_entered = [c \in AllConns |-> FALSE]
    /\ turns = [c \in AllConns |-> 0]
    /\ turn = [c \in AllConns |-> NoTurn]
    /\ collected = [c \in AllConns |-> 0]
    /\ dtmf_inputs = [c \in AllConns |-> <<>>]
    /\ declared = [c \in AllConns |-> None]
    /\ call_context = [c \in AllConns |-> EmptyContext]
    /\ wav = NoFile
    /\ held = [c \in AllConns |-> 0]
    /\ last = [c \in AllConns |-> NoRelayTurn]
    /\ crossed = {}
    /\ healthcare_context = [c \in AllConns |-> NewHealthcareContext]
    /\ posts = 0
    /\ submits = 0
    /\ last_op = NoOp

\* The clock advances.
Tick(d) ==
    /\ ticks < MaxTicks
    /\ now' = now + d
    /\ ticks' = ticks + 1
    /\ UNCHANGED <<telephony_token, active_sessions, maqsam_sessions, session_rate_limits,
                   tokens, http, pc, ep, cred, sid, accepted, close_code, processed,
                   id_collision, cred_valid>>

\* A session id is generated for a new session and registered in `sessions`
\* (every id ever generated stays in its registry).
Mint(id, sessions) == id_collision' = (id_collision \/ id \in DOMAIN sessions)

NoMint == UNCHANGED id_collision

(***************************************************************************)
(* GET /auth/token (get_auth_token).  The coroutine has no await: it runs  *)
(* as one step.                                                            *)
(***************************************************************************)
GetAuthToken(credential_ok) ==
    /\ IF ~credential_ok
       THEN /\ http' = [op |-> "auth_token", status |-> HTTP_UNAUTHORIZED]
            /\ UNCHANGED <<active_sessions, tokens>>
            /\ NoMint
       ELSE IF ~check_concurrent_sessions(active_sessions)
       THEN /\ http' = [op |-> "auth_token", status |-> HTTP_TOO_MANY]
            /\ UNCHANGED <<active_sessions, tokens>>
            /\ NoMint
       ELSE LET session_id == SessionId("auth", now, 0)
            IN  /\ tokens' = tokens \cup {generate_session_token(session_id, "system", now)}
                /\ active_sessions' = Register(active_sessions, session_id)
                /\ Mint(session_id, active_sessions)
                /\ http' = [op |-> "auth_token", status |-> HTTP_OK]
    /\ UNCHANGED <<now, ticks, telephony_token, maqsam_sessions, session_rate_limits,
                   pc, ep, cred, sid, accepted, close_code, processed, cred_valid>>

(***************************************************************************)
(* A websocket handler up to its first await.                              *)
(***************************************************************************)
\* await websocket.close(code=...); return
Refuse(c, code) ==
    /\ pc' = [pc EXCEPT ![c] = "done"]
    /\ close_code' = [close_code EXCEPT ![c] = code]

\* the handler reaches await websocket.accept()
Admit(c) ==
    /\ pc' = [pc EXCEPT ![c] = "accepting"]
    /\ UNCHANGED close_code

\* secure_websocket_endpoint: rate limit, then the
\* token if one is given, then the session cap (only on the token path).
ConnectSecure(c, cr, client_ip) ==
    /\ pc[c] = "idle"
    /\ ep' = [ep EXCEPT ![c] = "secure"]
    /\ cred' = [cred EXCEPT ![c] = cr]
    /\ cred_valid' = [cred_valid EXCEPT ![c] = cr \in tokens /\ now < cr.exp]
    /\ LET rl == check_rate_limit(session_rate_limits, client_ip, now)
       IN  /\ session_rate_limits' = rl.limits
           /\ IF ~rl.allow
              THEN Refuse(c, CLOSE_TOO_MANY)
              ELSE IF cr.kind = "none"
              THEN Admit(c)
              ELSE IF verify_token(cr, now) = NoCred
              THEN Refuse(c, CLOSE_UNAUTHORIZED)
              ELSE IF ~check_concurrent_sessions(active_sessions)
              THEN Refuse(c, CLOSE_TOO_MANY)
              ELSE Admit(c)
    /\ UNCHANGED <<now, ticks, telephony_token, active_sessions, maqsam_sessions,
                   tokens, http, sid, accepted, processed, id_collision>>

\* telephony_websocket_endpoint: the shared
\* secret only.
ConnectTelephony(c, secret) ==
    /\ pc[c] = "idle"
    /\ ep' = [ep EXCEPT ![c] = "telephony"]
    /\ cred' = [cred EXCEPT ![c] = SecretCred(secret)]
    /\ cred_valid' = [cred_valid EXCEPT ![c] = telephony_token \notin {None, ""} /\ secret = telephony_token]
    /\ IF ~verify_telephony_token(secret, telephony_token)
       THEN Refuse(c, CLOSE_UNAUTHORIZED)
       ELSE Admit(c)
    /\ UNCHANGED <<now, ticks, telephony_token, active_sessions, maqsam_sessions,
                   session_rate_limits, tokens, http, sid, accepted, processed,
                   id_collision>>

\* The session id the handler uses once accept() has returned.
AcceptedSessionId(c) ==
    CASE ep[c] = "secure" /\ cred[c].kind = "jwt" -> cred[c].session_id
      [] ep[c] = "secure" -> SessionId("internal", 0, c)
      [] OTHER -> SessionId("telephony", now, c)

\* await websocket.accept() returns; the handler names and registers its
\* session and reaches its first receive.
Accept(c) ==
    /\ pc[c] = "accepting"
    /\ LET session_id == AcceptedSessionId(c)
       IN  /\ accepted' = [accepted EXCEPT ![c] = TRUE]
           /\ sid' = [sid EXCEPT ![c] = session_id]
           /\ active_sessions' = Register(active_sessions, session_id)
           /\ IF ep[c] = "secure" /\ cred[c].kind = "jwt"
              THEN NoMint
              ELSE Mint(session_id, active_sessions)
    /\ pc' = [pc EXCEPT ![c] = "loop"]
    /\ UNCHANGED <<now, ticks, telephony_token, maqsam_sessions, session_rate_limits,
                   tokens, http, ep, cred, close_code, processed, cred_valid>>

\* One turn of a relay's loop: a binary frame is received and answered.
RelayTurn(c) ==
    /\ pc[c] = "loop"
    /\ ep[c] \in RelayEndpoints
    /\ processed' = [processed EXCEPT ![c] = TRUE]
    /\ UNCHANGED <<now, ticks, telephony_token, active_sessions, maqsam_sessions,
                   session_rate_limits, tokens, http, pc, ep, cred, sid, accepted,
                   close_code, id_collision, cred_valid>>

\* The relay's loop ends (WebSocketDisconnect or another exception); finally.
RelayEnd(c) ==
    /\ pc[c] = "loop"
    /\ ep[c] \in RelayEndpoints
    /\ active_sessions' = MarkInactive(active_sessions, sid[c])
    /\ pc' = [pc EXCEPT ![c] = "done"]
    /\ UNCHANGED <<now, ticks, telephony_token, maqsam_sessions, session_rate_limits,
                   tokens, http, ep, cred, sid, accepted, close_code, processed,
                   id_collision, cred_valid>>

\* maqsam_websocket_endpoint and handle_maqsam_connection up to the first
\* receive: the session is registered in the handler's own registry.  The
\* handler never calls websocket.accept().
ConnectMaqsam(c, secret) ==
    /\ pc[c] = "idle"
    /\ ep' = [ep EXCEPT ![c] = "maqsam"]
    /\ cred' = [cred EXCEPT ![c] = SecretCred(secret)]
    /\ cred_valid' = [cred_valid EXCEPT ![c] = telephony_token \notin {None, ""} /\ secret = telephony_token]
    /\ IF secret = None \/ secret = "" \/ ~verify_telephony_token(secret, telephony_token)
       THEN /\ Refuse(c, CLOSE_UNAUTHORIZED)
            /\ UNCHANGED <<maqsam_sessions, sid>>
            /\ NoMint
       ELSE LET session_id == SessionId("maqsam", now, c)
            IN  /\ sid' = [sid EXCEPT ![c] = session_id]
                /\ maqsam_sessions' = Register(maqsam_sessions, session_id)
                /\ Mint(session_id, maqsam_sessions)
                /\ pc' = [pc EXCEPT ![c] = "setup"]
                /\ UNCHANGED close_code
    /\ UNCHANGED <<now, ticks, telephony_token, active_sessions, session_rate_limits,
                   tokens, http, accepted, processed>>

\* finally of handle_maqsam_connection.
MaqsamFinally(c) ==
    /\ maqsam_sessions' = MarkInactive(maqsam_sessions, sid[c])
    /\ pc' = [pc EXCEPT ![c] = "done"]

\* The try block of handle_maqsam_connection ends, by whatever path.
MaqsamEnd(c) ==
    /\ pc[c] = "setup"
    /\ MaqsamFinally(c)
    /\ UNCHANGED <<now, ticks, telephony_token, active_sessions, session_rate_limits,
                   tokens, http, ep, cred, sid, accepted, close_code, processed,
                   id_collision, cred_valid>>

TokenCreds == {NoCred, ForgedToken} \cup tokens

Init == AdmissionInit /\ telephony_token # "" /\ survey = EmptySurvey /\ norm = NoNorm
        /\ logic = NoLogic /\ conv = NoConv /\ tok = NoTok /\ request = NoRequest

Next ==
    \/ \E d \in TickSteps : Tick(d) /\ UNCHANGED aside
    \/ \E ok \in BOOLEAN : GetAuthToken(ok) /\ UNCHANGED aside
    \/ \E c \in Conns, cr \in TokenCreds, i \in ClientIPs :
          ConnectSecure(c, cr, i) /\ UNCHANGED aside
    \/ \E c \in Conns, s \in PresentedSecrets : ConnectTelephony(c, s) /\ UNCHANGED aside
    \/ \E c \in Conns, s \in PresentedSecrets : ConnectMaqsam(c, s) /\ UNCHANGED aside
    \/ \E c \in Conns : Accept(c) /\ UNCHANGED aside
    \/ \E c \in Conns : RelayTurn(c) /\ UNCHANGED aside
    \/ \E c \in Conns : RelayEnd(c) /\ UNCHANGED aside
    \/ \E c \in Conns : MaqsamEnd(c) /\ UNCHANGED aside

Spec == Init /\ [][Next]_vars

(***************************************************************************)
(* SpecSecure: token issuance and the token-authenticated relay alone,     *)
(* with one more connection than the session cap.                          *)
(***************************************************************************)
SecureInit == AdmissionInit /\ telephony_token = None /\ survey = EmptySurvey /\ norm = NoNorm
        /\ logic = NoLogic /\ conv = NoConv /\ tok = NoTok /\ request = NoRequest

SecureNext ==
    \/ \E d \in TickSteps : Tick(d) /\ UNCHANGED aside
    \/ \E ok \in BOOLEAN : GetAuthToken(ok) /\ UNCHANGED aside
    \/ \E c \in SecureConns, cr \in TokenCreds, i \in ClientIPs :
          ConnectSecure(c, cr, i) /\ UNCHANGED aside
    \/ \E c \in SecureConns : Accept(c) /\ UNCHANGED aside
    \/ \E c \in SecureConns : RelayTurn(c) /\ UNCHANGED aside
    \/ \E c \in SecureConns : RelayEnd(c) /\ UNCHANGED aside

SpecSecure == SecureInit /\ [][SecureNext]_vars

(***************************************************************************)
(* The handshake of a JSON telephony endpoint.  An Authorization header is *)
(* its scheme (what stands before the first blank) and its value; a peer   *)
(* may send none, a Bearer header with any token, or a header of another   *)
(* scheme, and any token in the query string.                              *)
(***************************************************************************)
AuthHeaders ==
    {NoHeader} \cup [scheme : {"Bearer", "Basic"}, value : {TELEPHONY_SECRET, "wrong-secret", ""}]

\* extract_maqsam_token that looks at the query string first.
extract_maqsam_token_query_first(authorization, token) ==
    IF token # None THEN token
    ELSE IF authorization.scheme = "Bearer" THEN authorization.value ELSE None

\* extract_maqsam_token
extract_maqsam_token(authorization, token) ==
    IF authorization.scheme = "Bearer" THEN authorization.value ELSE token

\* maqsam_websocket_endpoint, from the handshake it is called with.
MaqsamRequest(c, authorization, token) ==
    /\ ConnectMaqsam(c, extract_maqsam_token(authorization, token))
    /\ request' = [conn |-> c, authorization |-> authorization, token |-> token]
    /\ UNCHANGED <<rate_history, protocol_vars, turn_vars, survey_vars, logic, conv, tok>>

(***************************************************************************)
(* SpecHttp: the HTTP operations that ask for SECRET_KEY, called with any  *)
(* Authorization header, beside the token-authenticated relay whose        *)
(* sessions fill the registry.  security_bearer (auto_error=False) yields  *)
(* no credentials for a missing header and for a header of another scheme. *)
(***************************************************************************)
HttpHeaders ==
    {NoHeader} \cup [scheme : {"Bearer", "Basic"}, value : {SECRET_KEY, "invalid-secret"}]

\* The test of get_auth_token without the comparison with SECRET_KEY.
CredentialsGiven(authorization) == authorization.scheme = "Bearer"

\* not (not credentials or credentials.credentials != SECRET_KEY)
CredentialsOk(authorization) ==
    authorization.scheme = "Bearer" /\ authorization.value = SECRET_KEY

HttpRest == UNCHANGED <<rate_history, protocol_vars, turn_vars, survey_vars, logic, conv, tok>>

\* GET /auth/token
HttpGetAuthToken(authorization) ==
    /\ GetAuthToken(CredentialsOk(authorization))
    /\ request' = [conn |-> 0, authorization |-> authorization, token |-> None]
    /\ HttpRest

\* GET /admin/sessions and GET /admin/health: they read the registries.
GetActiveSessions(authorization) ==
    /\ http' = [op |-> "admin_sessions",
                status |-> IF CredentialsOk(authorization) THEN HTTP_OK ELSE HTTP_UNAUTHORIZED]
    /\ request' = [conn |-> 0, authorization |-> authorization, token |-> None]
    /\ UNCHANGED <<now, ticks, telephony_token, active_sessions, maqsam_sessions,
                   session_rate_limits, tokens, pc, ep, cred, sid, accepted, close_code,
                   processed, cred_valid, id_collision>>
    /\ HttpRest

HttpInit ==
    /\ AdmissionInit
    /\ telephony_token = None
    /\ survey = EmptySurvey /\ norm = NoNorm
    /\ logic = NoLogic /\ conv = NoConv /\ tok = NoTok /\ request = NoRequest

HttpNext ==
    \/ \E d \in TickSteps : Tick(d) /\ UNCHANGED aside
    \/ \E h \in HttpHeaders : HttpGetAuthToken(h)
    \/ \E h \in HttpHeaders : GetActiveSessions(h)
    \/ \E c \in Conns, cr \in TokenCreds, i \in ClientIPs :
          ConnectSecure(c, cr, i) /\ UNCHANGED aside
    \/ \E c \in Conns : Accept(c) /\ UNCHANGED aside
    \/ \E c \in Conns : RelayEnd(c) /\ UNCHANGED aside

SpecHttp == HttpInit /\ [][HttpNext]_vars

(***************************************************************************)
(* SpecTelephony: the endpoints that authenticate with the shared secret,  *)
(* for every configuration of TELEPHONY_TOKEN (unset, empty, set) and      *)
(* every token a peer may present, the empty one included.                 *)
(***************************************************************************)
TelephonyInit ==
    /\ AdmissionInit
    /\ survey = EmptySurvey /\ norm = NoNorm
    /\ logic = NoLogic /\ conv = NoConv /\ tok = NoTok /\ request = NoRequest

TelephonyNext ==
    \/ \E c \in Conns, s \in PresentedSecrets \cup {""} : ConnectTelephony(c, s) /\ UNCHANGED aside
    \/ \E c \in Conns, h \in AuthHeaders, s \in PresentedSecrets \cup {""} : MaqsamRequest(c, h, s)
    \/ \E c \in Conns : Accept(c) /\ UNCHANGED aside
    \/ \E c \in Conns : RelayEnd(c) /\ UNCHANGED aside
    \/ \E c \in Conns : MaqsamEnd(c) /\ UNCHANGED aside

SpecTelephony ==
    /\ TelephonyInit
    /\ [][TelephonyNext]_vars

(***************************************************************************)
(* SpecRate: the rate limiter alone.  Callers on every client address call *)
(* check_rate_limit while the clock advances by steps around the length of *)
(* the window.                                                             *)
(***************************************************************************)
RateSteps == {1, RATE_WINDOW - 1, RATE_WINDOW}

RateInit == AdmissionInit /\ telephony_token = None /\ survey = EmptySurvey /\ norm = NoNorm
        /\ logic = NoLogic /\ conv = NoConv /\ tok = NoTok /\ request = NoRequest

\* The clock advances (it never goes back).
RateTick(d) ==
    /\ ticks < MaxRateTicks
    /\ now' = now + d
    /\ ticks' = ticks + 1
    /\ UNCHANGED <<telephony_token, active_sessions, maqsam_sessions, session_rate_limits,
                   tokens, http, pc, ep, cred, sid, accepted, close_code, processed,
                   cred_valid, id_collision, rate_history, protocol_vars, turn_vars, survey_vars, tool_vars>>

\* if not check_rate_limit(client_ip): ...
CallCheckRateLimit(client_ip) ==
    /\ LET rl == check_rate_limit(session_rate_limits, client_ip, now)
       IN  /\ session_rate_limits' = rl.limits
           /\ rate_verdict' = [key |-> client_ip, allow |-> rl.allow]
           /\ admitted' = IF rl.allow
                          THEN [admitted EXCEPT ![client_ip] = Append(@, now)]
                          ELSE admitted
           /\ verdicts' = [verdicts EXCEPT ![client_ip] =
                               IF @ = <<>> THEN <<rl.allow>> ELSE <<@[Len(@)], rl.allow>>]
    /\ UNCHANGED <<now, ticks, telephony_token, active_sessions, maqsam_sessions,
                   tokens, http, pc, ep, cred, sid, accepted, close_code, processed,
                   cred_valid, id_collision, protocol_vars, turn_vars, survey_vars, tool_vars>>

RateNext ==
    \/ \E d \in RateSteps : RateTick(d)
    \/ \E i \in ClientIPs : CallCheckRateLimit(i)

SpecRate == RateInit /\ [][RateNext]_vars

(***************************************************************************)
(* SpecMaqsam: the JSON telephony handler (handle_maqsam_connection) on    *)
(* each connection, frame by frame.  The websocket is the environment: a   *)
(* receive delivers a frame or raises, a send succeeds or raises.          *)
(***************************************************************************)
MaqsamRest ==
    UNCHANGED <<now, ticks, telephony_token, active_sessions, session_rate_limits,
                tokens, http, ep, cred, sid, accepted, processed, cred_valid,
                id_collision, rate_history, turn_vars, survey_vars, tool_vars>>

\* An exception leaves the try block of handle_maqsam_connection: it is
\* logged and the finally clause runs.
MaqsamRaise(c) == MaqsamFinally(c)

\* _handle_session_setup: the first receive delivers a frame.
MaqsamSetupReceive(c, frame) ==
    /\ pc[c] = "setup"
    /\ first_msg' = [first_msg EXCEPT ![c] = frame]
    /\ IF frame \in {"malformed", "nonobject"}
       THEN \* json.loads or data.get raises: close(1002), raise
            /\ close_code' = [close_code EXCEPT ![c] = CLOSE_PROTOCOL_ERROR]
            /\ MaqsamRaise(c)
            /\ UNCHANGED <<declared, call_context>>
       ELSE IF frame # "session.setup"
       THEN \* close(1002), return: the caller goes on to _send_session_ready
            /\ close_code' = [close_code EXCEPT ![c] = CLOSE_PROTOCOL_ERROR]
            /\ pc' = [pc EXCEPT ![c] = "ready"]
            /\ UNCHANGED <<maqsam_sessions, declared, call_context>>
       ELSE \* session_context["call_context"] = data.get("data", {}).get("context", {})
            \E ctx \in SetupContexts :
                /\ declared' = [declared EXCEPT ![c] = ctx]
                /\ call_context' = [call_context EXCEPT ![c] = ctx]
                /\ pc' = [pc EXCEPT ![c] = "ready"]
                /\ UNCHANGED <<close_code, maqsam_sessions>>
    /\ UNCHANGED <<n_ready, loop_entered, turns, turn, collected, dtmf_inputs>>
    /\ MaqsamRest

\* _handle_session_setup: the first receive raises (the peer is gone, or
\* the transport fails): close(1002), raise.
MaqsamSetupFault(c) ==
    /\ pc[c] = "setup"
    /\ close_code' = [close_code EXCEPT ![c] = CLOSE_PROTOCOL_ERROR]
    /\ MaqsamRaise(c)
    /\ UNCHANGED protocol_vars
    /\ MaqsamRest

\* A handler that enters the loop without confirming the setup.
MaqsamSendReady_unconfirmed(c, send_ok) ==
    /\ pc[c] = "ready"
    /\ loop_entered' = [loop_entered EXCEPT ![c] = TRUE]
    /\ pc' = [pc EXCEPT ![c] = "loop"]
    /\ UNCHANGED <<close_code, maqsam_sessions, first_msg, n_ready, turns, turn, collected, dtmf_inputs,
                   declared, call_context>>
    /\ MaqsamRest

\* _send_session_ready, then the entry of _process_audio_loop up to its
\* first receive.
MaqsamSendReady(c, send_ok) ==
    /\ pc[c] = "ready"
    /\ IF send_ok
       THEN /\ n_ready' = [n_ready EXCEPT ![c] = @ + 1]
            /\ loop_entered' = [loop_entered EXCEPT ![c] = TRUE]
            /\ pc' = [pc EXCEPT ![c] = "loop"]
            /\ UNCHANGED maqsam_sessions
       ELSE /\ MaqsamRaise(c)
            /\ UNCHANGED <<n_ready, loop_entered>>
    /\ UNCHANGED <<close_code, first_msg, turns, turn, collected, dtmf_inputs, declared,
                   call_context>>
    /\ MaqsamRest

\* _handle_audio_input: the messages it sends for each outcome.
\* _send_error_response and _send_audio_response swallow a failing send.
AudioTurn(outcome, speech, send_ok) ==
    [msg |-> "audio.input",
     outcome |-> outcome,
     speech |-> outcome \in Interacted /\ speech,
     errors |-> IF outcome \in {"bad_base64", "processing_error", "no_reply_audio"} /\ send_ok
                THEN 1 ELSE 0,
     streams |-> IF outcome = "streamed" /\ send_ok THEN 1 ELSE 0,
     digit |-> None]

\* What _process_audio_loop may do with a frame: the audio.input outcomes,
\* or nothing to send for the other frames.
TurnsOf(frame) ==
    IF frame = "audio.input"
    THEN {AudioTurn(o, sp, ok) : o \in AudioOutcomes, sp \in BOOLEAN, ok \in BOOLEAN}
    ELSE IF frame = "call.dtmf"
    THEN {[NoTurn EXCEPT !.msg = frame, !.digit = d] : d \in DtmfData}
    ELSE {[NoTurn EXCEPT !.msg = frame]}

\* _handle_dtmf_input: digit = data.get("data", {}).get("digit", ""), and
\* session_context["dtmf_inputs"].append(digit).
handle_dtmf_input(dtmf, digit) == Append(dtmf, IF digit = None THEN "" ELSE digit)

\* One iteration of _process_audio_loop: a frame is received and handled.
MaqsamTurn(c, frame, t) ==
    /\ pc[c] = "loop"
    /\ turns[c] < MaxTurns
    /\ turns' = [turns EXCEPT ![c] = @ + 1]
    /\ turn' = [turn EXCEPT ![c] = t]
    /\ IF frame \in {"nonobject", "badshape"} \/ (frame = "call.dtmf" /\ t.digit = NotAnObject)
       THEN \* data.get raises (in the loop, in _handle_dtmf_input or in
            \* _handle_call_mark): except Exception: raise
            /\ MaqsamRaise(c)
            /\ UNCHANGED dtmf_inputs
       ELSE /\ UNCHANGED <<pc, maqsam_sessions>>
            /\ dtmf_inputs' = IF frame = "call.dtmf"
                              THEN [dtmf_inputs EXCEPT ![c] = handle_dtmf_input(@, t.digit)]
                              ELSE dtmf_inputs
    /\ UNCHANGED <<close_code, first_msg, n_ready, loop_entered, collected,
                   declared, call_context>>
    /\ MaqsamRest

\* The receive of the loop raises (the peer is gone, or the transport
\* fails): the exception leaves the loop.
MaqsamLoopFault(c) ==
    /\ pc[c] = "loop"
    /\ MaqsamRaise(c)
    /\ UNCHANGED <<close_code, protocol_vars>>
    /\ MaqsamRest

MaqsamInit == AdmissionInit /\ telephony_token = TELEPHONY_SECRET /\ survey = EmptySurvey /\ norm = NoNorm
        /\ logic = NoLogic /\ conv = NoConv /\ tok = NoTok /\ request = NoRequest

MaqsamNext ==
    \/ \E c \in MaqsamConns, s \in PresentedSecrets : ConnectMaqsam(c, s) /\ UNCHANGED aside
    \/ \E c \in MaqsamConns, f \in FrameKinds : MaqsamSetupReceive(c, f)
    \/ \E c \in MaqsamConns : MaqsamSetupFault(c)
    \/ \E c \in MaqsamConns, ok \in BOOLEAN : MaqsamSendReady(c, ok)
    \/ \E c \in MaqsamConns, f \in FrameKinds : \E t \in TurnsOf(f) : MaqsamTurn(c, f, t)
    \/ \E c \in MaqsamConns : MaqsamLoopFault(c)

SpecMaqsam == MaqsamInit /\ [][MaqsamNext]_vars

(***************************************************************************)
(* SpecTurn: the turns of the relay handlers, step by step.  Every         *)
(* synthesis writes the one file <cwd>/response.wav (services.py:223-258), *)
(* which the handler reads, sends (an await, where other handlers run) and *)
(* then removes.                                                           *)
(***************************************************************************)
TurnEndpoints == {"secure", "telephony", "healthcare"}

\* What the synthesis engine does with a text: it writes the file, it
\* raises, or it returns without having written a file.
TtsOutcomes == {"written", "raised", "silent"}

TurnRest ==
    UNCHANGED <<now, ticks, telephony_token, maqsam_sessions, session_rate_limits,
                tokens, http, ep, cred, sid, accepted, close_code, processed, cred_valid,
                id_collision, rate_history, first_msg, n_ready, loop_entered, turn,
                collected, dtmf_inputs, declared, call_context, survey_vars, tool_vars>>

\* text_to_speech: the path is returned when the file exists after the
\* engine ran; a text of None makes text.strip() raise, which is caught.
text_to_speech(c, text_ok, tts, file) ==
    IF ~text_ok \/ tts = "raised"
    THEN [path |-> FALSE, file |-> file]
    ELSE IF tts = "written"
    THEN [path |-> TRUE, file |-> [exists |-> TRUE, owner |-> c]]
    ELSE [path |-> file.exists, file |-> file]

\* /ws/healthcare-questionnaire: accept, the welcome text, the first receive.
ConnectHealthcare(c) ==
    /\ pc[c] = "idle"
    /\ ep' = [ep EXCEPT ![c] = "healthcare"]
    /\ accepted' = [accepted EXCEPT ![c] = TRUE]
    /\ pc' = [pc EXCEPT ![c] = "loop"]
    /\ UNCHANGED <<now, ticks, telephony_token, active_sessions, maqsam_sessions,
                   session_rate_limits, tokens, http, cred, sid, close_code, processed,
                   cred_valid, id_collision>>

\* The reply texts of a healthcare turn, as sequences of words.
ResponseTexts == {<<"pain">>, <<"medication">>, <<"medication", "pain">>, <<"thanks">>}

\* _update_healthcare_context: the only thing a turn writes to the context.
update_healthcare_context(response_text, context) ==
    IF \E i \in DOMAIN response_text : response_text[i] \in {"alam", "wajaa", "pain"}
    THEN [context EXCEPT !.current_question = "pain_assessment"]
    ELSE IF \E i \in DOMAIN response_text : response_text[i] \in {"dawaa", "medication"}
    THEN [context EXCEPT !.current_question = "medication_review"]
    ELSE context

\* _is_questionnaire_complete
is_questionnaire_complete(context) == Cardinality(context.patient_data.responses) >= 3

\* The error frames a handler may send on its way out: the generic relays
\* try one send_text in their except Exception branch, which may fail, and
\* none on WebSocketDisconnect; the other relays send nothing.
CloseErrors(c) == IF ep[c] = "secure" THEN {0, 1} ELSE {0}

\* A handler that goes on receiving after an exception.
RelayLeave_stays(c) ==
    /\ pc' = [pc EXCEPT ![c] = "loop"]
    /\ active_sessions' = MarkInactive(active_sessions, sid[c])

\* The handler leaves its loop by an exception: finally.
RelayLeave(c) ==
    /\ pc' = [pc EXCEPT ![c] = "done"]
    /\ active_sessions' = MarkInactive(active_sessions, sid[c])

RelayStay(c, at) ==
    /\ pc' = [pc EXCEPT ![c] = at]
    /\ UNCHANGED active_sessions

\* The end of a healthcare turn: break when the questionnaire is complete.
HealthcareTurnEnd(c) ==
    IF is_questionnaire_complete(healthcare_context[c])
    THEN RelayLeave(c)
    ELSE RelayStay(c, "loop")

\* A frame is received and process_voice_interaction runs; the handler
\* reads the audio file, if any, and reaches the await of its send.
RelayReceive(c, text_ok, tts) ==
    /\ pc[c] = "loop"
    /\ ep[c] \in TurnEndpoints
    /\ ep[c] = "healthcare" \/ turns[c] < MaxTurns
    /\ turns' = IF ep[c] = "healthcare" THEN turns ELSE [turns EXCEPT ![c] = @ + 1]
    /\ LET syn == text_to_speech(c, text_ok, tts, wav)
           yield == IF ~text_ok THEN "no_text" ELSE IF syn.path THEN "audio" ELSE "no_audio"
       IN  /\ wav' = syn.file
           /\ IF ep[c] = "healthcare" /\ ~text_ok
              THEN \* _update_healthcare_context: response_text.lower() raises
                   /\ last' = [last EXCEPT ![c] =
                                  [yield |-> yield, reply |-> "none", fatal |-> TRUE, close_errors |-> 0]]
                   /\ held' = [held EXCEPT ![c] = 0]
                   /\ UNCHANGED healthcare_context
                   /\ RelayLeave(c)
              ELSE /\ last' = [last EXCEPT ![c] =
                                  [yield |-> yield, reply |-> "none", fatal |-> FALSE, close_errors |-> 0]]
                   /\ IF ep[c] = "healthcare"
                      THEN \E response_text \in ResponseTexts :
                               healthcare_context' =
                                   [healthcare_context EXCEPT ![c] =
                                       update_healthcare_context(response_text, @)]
                      ELSE UNCHANGED healthcare_context
                   /\ held' = [held EXCEPT ![c] = IF syn.path THEN syn.file.owner ELSE 0]
                   /\ RelayStay(c, "sending")
    /\ UNCHANGED crossed
    /\ TurnRest

\* os.remove(audio_file_path) after the send: what it does to the file and
\* whether the handler survives it.  Only /ws/telephony removes outside a
\* try block.
RemoveAfterSend(c) ==
    IF wav.exists
    THEN [file |-> NoFile,
          crossed |-> IF wav.owner # c THEN {"deleted_foreign"} ELSE {},
          fatal |-> FALSE]
    ELSE [file |-> wav,
          crossed |-> {"lost_own"},
          fatal |-> ep[c] = "telephony"]

\* The await of the send returns or raises.
RelaySent(c, send_ok) ==
    /\ pc[c] = "sending"
    /\ held' = [held EXCEPT ![c] = 0]
    /\ IF held[c] = 0
       THEN \* the error text, or the fallback text of _send_voice_response
            /\ UNCHANGED <<wav, crossed>>
            /\ IF send_ok
               THEN /\ last' = [last EXCEPT ![c].reply =
                                   IF ep[c] = "healthcare" THEN "text" ELSE "error"]
                    /\ IF ep[c] = "healthcare"
                       THEN HealthcareTurnEnd(c) ELSE RelayStay(c, "loop")
               ELSE IF ep[c] = "healthcare"
               THEN UNCHANGED last /\ HealthcareTurnEnd(c)
               ELSE /\ \E n \in CloseErrors(c) : last' = [last EXCEPT ![c].close_errors = n]
                    /\ RelayLeave(c)
       ELSE IF send_ok
       THEN LET rm == RemoveAfterSend(c)
            IN  /\ wav' = rm.file
                /\ crossed' = crossed \cup rm.crossed
                               \cup (IF held[c] # c THEN {"sent_foreign"} ELSE {})
                /\ last' = [last EXCEPT ![c].reply = "audio", ![c].fatal = rm.fatal]
                /\ IF rm.fatal THEN RelayLeave(c)
                   ELSE IF ep[c] = "healthcare" THEN HealthcareTurnEnd(c)
                   ELSE RelayStay(c, "loop")
       ELSE \* the send raises: the remove is skipped
            /\ UNCHANGED <<wav, crossed>>
            /\ IF ep[c] = "healthcare"
               THEN UNCHANGED last /\ HealthcareTurnEnd(c)
               ELSE /\ \E n \in CloseErrors(c) : last' = [last EXCEPT ![c].close_errors = n]
                    /\ RelayLeave(c)
    /\ UNCHANGED <<turns, healthcare_context>>
    /\ TurnRest

\* The receive raises: the peer is gone or sent a frame that is not binary.
RelayFault(c) ==
    /\ pc[c] = "loop"
    /\ ep[c] \in TurnEndpoints
    /\ RelayLeave(c)
    /\ \E n \in CloseErrors(c) : last' = [last EXCEPT ![c].close_errors = n]
    /\ UNCHANGED <<turns, wav, held, crossed, healthcare_context>>
    /\ TurnRest

TurnInit == AdmissionInit /\ telephony_token = TELEPHONY_SECRET /\ survey = EmptySurvey /\ norm = NoNorm
        /\ logic = NoLogic /\ conv = NoConv /\ tok = NoTok /\ request = NoRequest

TurnNext ==
    \/ \E c \in Conns, i \in ClientIPs : ConnectSecure(c, NoCred, i) /\ UNCHANGED aside
    \/ \E c \in Conns : ConnectTelephony(c, TELEPHONY_SECRET) /\ UNCHANGED aside
    \/ \E c \in Conns : ConnectHealthcare(c) /\ UNCHANGED aside
    \/ \E c \in Conns : Accept(c) /\ UNCHANGED aside
    \/ \E c \in Conns, text_ok \in BOOLEAN, tts \in TtsOutcomes : RelayReceive(c, text_ok, tts)
    \/ \E c \in Conns, ok \in BOOLEAN : RelaySent(c, ok)
    \/ \E c \in Conns : RelayFault(c)

SpecTurn == TurnInit /\ [][TurnNext]_vars

\* The relay under the scheduling of the event loop: an awaited send
\* returns or raises, so a handler at its send is eventually resumed.
SpecTurnFair ==
    /\ TurnInit /\ [][TurnNext]_vars
    /\ \A c \in Conns : WF_vars(\E ok \in BOOLEAN : RelaySent(c, ok))

(***************************************************************************)
(* _normalize_arabic_response.  A text is a sequence of pieces of text:    *)
(* words, the blank, digits.  The words are written in Latin letters:      *)
(*   naam = "نعم"   ay = "اي"   wah = "وه" ("ايوه" is ay wah)              *)
(*   muwafiq = "موافق"   sahih = "صحيح"   akid = "اكيد"   tabaan = "طبعا"  *)
(*   la = "لا"   ghayr = "غير"   khata = "خطأ"   abadan = "ابدا"           *)
(*   mustahil = "مستحيل"   mutaakkid = "متأكد"   aarif = "اعرف"            *)
(*   rubbama = "ربما"   mish = "مش"   arif = "عارف"                        *)
(* A pattern is contained in a text when its pieces occur in it            *)
(* consecutively, as Python's "in" on strings.  SpecNormalize applies the  *)
(* function once to any text of at most MaxLen pieces of TextPieces.       *)
(***************************************************************************)
Blank == " "

yes_patterns == {<<"naam">>, <<"ay">>, <<"ay", "wah">>, <<"yes">>, <<"muwafiq">>, <<"sahih">>,
                 <<"akid">>, <<"tabaan">>}

no_patterns == {<<"la">>, <<"no">>, <<"ghayr", Blank, "muwafiq">>, <<"khata">>, <<"abadan">>,
                <<"mustahil">>}

uncertain_patterns == {<<"ghayr", Blank, "mutaakkid">>, <<"la", Blank, "aarif">>,
                       <<"uncertain">>, <<"maybe">>, <<"rubbama">>,
                       <<"mish", Blank, "mutaakkid">>, <<"mish", Blank, "arif">>}

NormalYes == <<"naam">>

NormalNo == <<"la">>

NormalUncertain == <<"ghayr", Blank, "mutaakkid">>

Digits == {"0", "4", "7"}

TextPieces == {Blank, "naam", "YES", "muwafiq", "ghayr", "la", "aarif", "rubbama", "x"}
                  \cup Digits

Texts == UNION {[1..n -> TextPieces] : n \in 0..MaxLen}

QuestionTypes == {"yes_no", "rating", "open"}

\* str.lower(): of the pieces above only "YES" has upper-case letters.
Lower(text) == [i \in 1..Len(text) |-> IF text[i] = "YES" THEN "yes" ELSE text[i]]

\* str.strip(): leading and trailing blanks are removed.
Strip(text) ==
    LET kept == {i \in 1..Len(text) : text[i] # Blank}
    IN  IF kept = {} THEN <<>>
        ELSE SubSeq(text, CHOOSE i \in kept : \A j \in kept : i <= j,
                          CHOOSE i \in kept : \A j \in kept : j <= i)

\* pattern in text
Contains(text, pattern) ==
    \E i \in 0..(Len(text) - Len(pattern)) : SubSeq(text, i + 1, i + Len(pattern)) = pattern

AnyIn(patterns, text) == \E pattern \in patterns : Contains(text, pattern)

DigitValue(piece) == CASE piece = "0" -> 0 [] piece = "4" -> 4 [] piece = "7" -> 7

RECURSIVE int(_)
int(digits) ==
    IF digits = <<>> THEN 0
    ELSE int(SubSeq(digits, 1, Len(digits) - 1)) * 10 + DigitValue(digits[Len(digits)])

\* re.findall(r'\d+', text)[0]: the first maximal run of digits, <<>> if none.
FirstNumber(text) ==
    LET at == {i \in 1..Len(text) : text[i] \in Digits}
    IN  IF at = {} THEN <<>>
        ELSE LET first == CHOOSE i \in at : \A j \in at : i <= j
                 last_digit == CHOOSE k \in first..Len(text) :
                                  /\ \A j \in first..k : text[j] \in Digits
                                  /\ (k = Len(text) \/ text[k + 1] \notin Digits)
             IN  SubSeq(text, first, last_digit)

\* str(rating) for a rating in 1..5.
str(rating) == <<CHOOSE piece \in Digits : DigitValue(piece) = rating>>

Unrecognised(response_text) == [out_text |-> response_text, value |-> NoValue]

\* _normalize_arabic_response that looks for a negative keyword first.
normalize_arabic_response_no_first(response_text, question_type) ==
    LET normalized == Lower(Strip(response_text))
    IN  IF question_type = "yes_no"
        THEN IF AnyIn(no_patterns, normalized)
             THEN [out_text |-> NormalNo, value |-> <<0>>]
             ELSE IF AnyIn(yes_patterns, normalized)
             THEN [out_text |-> NormalYes, value |-> <<1>>]
             ELSE IF AnyIn(uncertain_patterns, normalized)
             THEN [out_text |-> NormalUncertain, value |-> <<3>>]
             ELSE Unrecognised(response_text)
        ELSE IF question_type = "rating"
        THEN LET numbers == FirstNumber(normalized)
             IN  IF numbers # <<>> /\ 1 <= int(numbers) /\ int(numbers) <= 5
                 THEN [out_text |-> str(int(numbers)), value |-> <<int(numbers)>>]
                 ELSE Unrecognised(response_text)
        ELSE Unrecognised(response_text)

\* _normalize_arabic_response with a rating scale of 1 to 10.
normalize_arabic_response_scale_10(response_text, question_type) ==
    LET normalized == Lower(Strip(response_text))
    IN  IF question_type = "yes_no"
        THEN IF AnyIn(yes_patterns, normalized)
             THEN [out_text |-> NormalYes, value |-> <<1>>]
             ELSE IF AnyIn(no_patterns, normalized)
             THEN [out_text |-> NormalNo, value |-> <<0>>]
             ELSE IF AnyIn(uncertain_patterns, normalized)
             THEN [out_text |-> NormalUncertain, value |-> <<3>>]
             ELSE Unrecognised(response_text)
        ELSE IF question_type = "rating"
        THEN LET numbers == FirstNumber(normalized)
             IN  IF numbers # <<>> /\ 1 <= int(numbers) /\ int(numbers) <= 10
                 THEN [out_text |-> str(int(numbers)), value |-> <<int(numbers)>>]
                 ELSE Unrecognised(response_text)
        ELSE Unrecognised(response_text)

normalize_arabic_response(response_text, question_type) ==
    LET normalized == Lower(Strip(response_text))
    IN  IF question_type = "yes_no"
        THEN IF AnyIn(yes_patterns, normalized)
             THEN [out_text |-> NormalYes, value |-> <<1>>]
             ELSE IF AnyIn(no_patterns, normalized)
             THEN [out_text |-> NormalNo, value |-> <<0>>]
             ELSE IF AnyIn(uncertain_patterns, normalized)
             THEN [out_text |-> NormalUncertain, value |-> <<3>>]
             ELSE Unrecognised(response_text)
        ELSE IF question_type = "rating"
        THEN LET numbers == FirstNumber(normalized)
             IN  IF numbers # <<>> /\ 1 <= int(numbers) /\ int(numbers) <= 5
                 THEN [out_text |-> str(int(numbers)), value |-> <<int(numbers)>>]
                 ELSE Unrecognised(response_text)
        ELSE Unrecognised(response_text)

NormalizeResponse ==
    /\ ~norm.done
    /\ LET r == normalize_arabic_response(norm.text, norm.question_type)
       IN  norm' = [norm EXCEPT !.done = TRUE, !.out_text = r.out_text, !.value = r.value]
    /\ UNCHANGED <<admission_vars, rate_history, protocol_vars, turn_vars, tool_vars, survey, posts,
                   submits, last_op>>

NormalizeInit ==
    /\ AdmissionInit
    /\ telephony_token = None
    /\ survey = EmptySurvey
    /\ logic = NoLogic /\ conv = NoConv /\ tok = NoTok /\ request = NoRequest
    /\ \E text \in Texts, question_type \in QuestionTypes :
          norm = [NoNorm EXCEPT !.text = text, !.question_type = question_type]

NormalizeNext == NormalizeResponse

SpecNormalize == NormalizeInit /\ [][NormalizeNext]_vars

(***************************************************************************)
(* Questionnaire functions of the telephony handler.  A session context   *)
(* is a Python dict: a function whose domain is the set of keys that are   *)
(* set.  SpecSurvey starts from any context over the keys the functions    *)
(* read and applies _is_survey_complete and _submit_survey_responses to    *)
(* it; the survey backend is the environment of the POST.                  *)
(***************************************************************************)
Get(ctx, key, default) == IF key \in DOMAIN ctx THEN ctx[key] ELSE default

Put(ctx, key, val) == [k \in DOMAIN ctx \cup {key} |-> IF k = key THEN val ELSE ctx[k]]

\* Python's "not v" for an identifier: unset (None) or the empty string.
Falsy(v) == v \in {None, ""}

IdValues == {NoValue, <<"">>, <<"id-1">>}

TotalValues == {NoValue} \cup {<<n>> : n \in 0..MaxQuestions}

\* A response entry (576-584), without its confidence and its times.
ResponseEntry(question_id, question_order, text, value) ==
    [question_id |-> question_id, question_order |-> question_order,
     response_text |-> text, response_value |-> value]

\* n entries recorded earlier, for the questions n down to 1 in that order.
ResponseEntries(n) ==
    [i \in 1..n |-> ResponseEntry("asked", n + 1 - i, NormalYes, <<1>>)]

\* The dict without keys.
EmptyDict == [k \in {} |-> None]

\* What current_question can hold: no key, a dict without an id or with an
\* empty one, a question of each type, a question with an id only.
Questions ==
    {NoValue, <<EmptyDict>>, <<[id |-> "", order |-> 1, type |-> "yes_no"]>>,
     <<[id |-> "q-1", order |-> 1, type |-> "yes_no"]>>,
     <<[id |-> "q-2", order |-> 2, type |-> "rating"]>>,
     <<[id |-> "q-3", order |-> 1, type |-> "open"]>>,
     <<[id |-> "q-4"]>>}

WithKey(ctx, key, opt) == IF opt = NoValue THEN ctx ELSE Put(ctx, key, opt[1])

SurveyContext(tid, hid, total, n, question) ==
    WithKey(WithKey(WithKey(WithKey(WithKey(EmptySurvey,
        "template_id", tid), "hospital_id", hid), "total_questions", total),
        "collected_responses", IF n = 0 THEN NoValue ELSE <<ResponseEntries(n)>>),
        "current_question", question)

SurveyContexts ==
    {SurveyContext(tid, hid, total, n, question) :
        tid \in IdValues, hid \in IdValues, total \in TotalValues, n \in 0..MaxResponses,
        question \in Questions}

\* sorted(collected_responses, key=lambda x: x["question_order"]): a new list,
\* entries of equal order in their order of recording.
RECURSIVE SortedByOrder(_)
SortedByOrder(responses) ==
    IF responses = <<>> THEN <<>>
    ELSE LET before == SortedByOrder(SubSeq(responses, 1, Len(responses) - 1))
             entry == responses[Len(responses)]
             k == Cardinality({i \in 1..Len(before) :
                                  before[i].question_order <= entry.question_order})
         IN  SubSeq(before, 1, k) \o <<entry>> \o SubSeq(before, k + 1, Len(before))

\* _is_survey_complete with ">" in place of ">=".
is_survey_complete_strict(session_context) ==
    LET total_questions == Get(session_context, "total_questions", 0)
        collected_responses == Get(session_context, "collected_responses", <<>>)
    IN  Len(collected_responses) > total_questions /\ total_questions > 0

is_survey_complete(session_context) ==
    LET total_questions == Get(session_context, "total_questions", 0)
        collected_responses == Get(session_context, "collected_responses", <<>>)
    IN  Len(collected_responses) >= total_questions /\ total_questions > 0

\* What the backend and the tools do to one submission: the credential
\* cannot be built, the request fails, or the backend answers with status
\* 200 (with a body that parses or not) or with another status.
SubmitOutcomes == {"token_error", "request_failed", "status_200", "status_200_bad_body",
                   "status_other"}

\* _submit_survey_responses that marks the session whatever the answer was.
submit_survey_responses_marks(session_context, outcome) ==
    LET template_id == Get(session_context, "template_id", None)
        hospital_id == Get(session_context, "hospital_id", None)
        collected_responses == Get(session_context, "collected_responses", <<>>)
        sorted_responses == SortedByOrder(collected_responses)
    IN  IF Falsy(template_id) \/ Falsy(hospital_id)
        THEN [ctx |-> session_context, outcome |-> "not_sent", posted |-> 0,
              raised |-> FALSE, to_peer |-> 0, answers |-> <<>>]
        ELSE IF outcome = "token_error"
        THEN [ctx |-> session_context, outcome |-> outcome, posted |-> 0,
              raised |-> FALSE, to_peer |-> 0, answers |-> <<>>]
        ELSE [ctx |-> Put(Put(session_context, "responses_submitted", TRUE),
                          "submission_result", "result"),
              outcome |-> outcome, posted |-> 1, raised |-> FALSE, to_peer |-> 0,
              answers |-> sorted_responses]

\* _submit_survey_responses that sorts the session's list itself
\* (collected_responses.sort) instead of a copy of it.
submit_survey_responses_sorts(session_context, outcome) ==
    LET template_id == Get(session_context, "template_id", None)
        hospital_id == Get(session_context, "hospital_id", None)
        collected_responses == Get(session_context, "collected_responses", <<>>)
        sorted_responses == SortedByOrder(collected_responses)
        sorted_context == IF "collected_responses" \in DOMAIN session_context
                          THEN Put(session_context, "collected_responses", sorted_responses)
                          ELSE session_context
    IN  IF Falsy(template_id) \/ Falsy(hospital_id)
        THEN [ctx |-> session_context, outcome |-> "not_sent", posted |-> 0,
              raised |-> FALSE, to_peer |-> 0, answers |-> <<>>]
        ELSE IF outcome = "token_error"
        THEN [ctx |-> sorted_context, outcome |-> outcome, posted |-> 0,
              raised |-> FALSE, to_peer |-> 0, answers |-> <<>>]
        ELSE IF outcome = "status_200"
        THEN [ctx |-> Put(Put(sorted_context, "responses_submitted", TRUE),
                          "submission_result", "result"),
              outcome |-> outcome, posted |-> 1, raised |-> FALSE, to_peer |-> 0,
              answers |-> sorted_responses]
        ELSE [ctx |-> sorted_context, outcome |-> outcome, posted |-> 1,
              raised |-> FALSE, to_peer |-> 0, answers |-> sorted_responses]

\* The result is the context afterwards, the number of POST requests made,
\* whether an exception reached the caller and the number of messages sent
\* to the peer.  Every exception is caught at 672-673; the function has no
\* websocket to send on.
submit_survey_responses(session_context, outcome) ==
    LET template_id == Get(session_context, "template_id", None)
        hospital_id == Get(session_context, "hospital_id", None)
        collected_responses == Get(session_context, "collected_responses", <<>>)
        sorted_responses == SortedByOrder(collected_responses)
    IN  IF Falsy(template_id) \/ Falsy(hospital_id)
        THEN [ctx |-> session_context, outcome |-> "not_sent", posted |-> 0,
              raised |-> FALSE, to_peer |-> 0, answers |-> <<>>]
        ELSE IF outcome = "token_error"
        THEN [ctx |-> session_context, outcome |-> outcome, posted |-> 0,
              raised |-> FALSE, to_peer |-> 0, answers |-> <<>>]
        ELSE IF outcome = "status_200"
        THEN [ctx |-> Put(Put(session_context, "responses_submitted", TRUE),
                          "submission_result", "result"),
              outcome |-> outcome, posted |-> 1, raised |-> FALSE, to_peer |-> 0,
              answers |-> sorted_responses]
        ELSE [ctx |-> session_context, outcome |-> outcome, posted |-> 1,
              raised |-> FALSE, to_peer |-> 0, answers |-> sorted_responses]

\* _track_survey_response that records without looking for a question id.
track_survey_response_unasked(session_context, response_text) ==
    LET current_question == Get(session_context, "current_question", EmptyDict)
        question_id == Get(current_question, "id", None)
        question_order == Get(current_question, "order", 0)
        question_type == Get(current_question, "type", "yes_no")
        r == normalize_arabic_response(response_text, question_type)
        response_entry == ResponseEntry(question_id, question_order, r.out_text, r.value)
        collected_responses == Get(session_context, "collected_responses", <<>>)
    IN  [ctx |-> Put(session_context, "collected_responses",
                     Append(collected_responses, response_entry)),
         recorded |-> TRUE, question_type |-> question_type, normalized |-> r,
         raised |-> FALSE, to_peer |-> 0]

\* _track_survey_response that stores the first number of the text whatever
\* the type of the question.
track_survey_response_untyped(session_context, response_text) ==
    LET current_question == Get(session_context, "current_question", EmptyDict)
        question_id == Get(current_question, "id", None)
        question_order == Get(current_question, "order", 0)
        question_type == Get(current_question, "type", "yes_no")
    IN  IF Falsy(question_id)
        THEN [ctx |-> session_context, recorded |-> FALSE, question_type |-> question_type,
              normalized |-> Unrecognised(response_text), raised |-> FALSE, to_peer |-> 0]
        ELSE LET r == normalize_arabic_response(response_text, "rating")
                 response_entry == ResponseEntry(question_id, question_order, r.out_text, r.value)
                 collected_responses == Get(session_context, "collected_responses", <<>>)
             IN  [ctx |-> Put(session_context, "collected_responses",
                              Append(collected_responses, response_entry)),
                  recorded |-> TRUE, question_type |-> question_type, normalized |-> r,
                  raised |-> FALSE, to_peer |-> 0]

\* The result is the context afterwards, whether an entry was recorded, the
\* question type and the result of the normalisation, whether an exception
\* reached the caller (all are caught at 591-592) and the number of
\* messages sent to the peer (the function has no websocket).
track_survey_response(session_context, response_text) ==
    LET current_question == Get(session_context, "current_question", EmptyDict)
        question_id == Get(current_question, "id", None)
        question_order == Get(current_question, "order", 0)
        question_type == Get(current_question, "type", "yes_no")
    IN  IF Falsy(question_id)
        THEN [ctx |-> session_context, recorded |-> FALSE, question_type |-> question_type,
              normalized |-> Unrecognised(response_text), raised |-> FALSE, to_peer |-> 0]
        ELSE LET r == normalize_arabic_response(response_text, question_type)
                 response_entry == ResponseEntry(question_id, question_order, r.out_text, r.value)
                 collected_responses == Get(session_context, "collected_responses", <<>>)
             IN  [ctx |-> Put(session_context, "collected_responses",
                              Append(collected_responses, response_entry)),
                  recorded |-> TRUE, question_type |-> question_type, normalized |-> r,
                  raised |-> FALSE, to_peer |-> 0]

SurveyRest ==
    UNCHANGED <<admission_vars, rate_history, protocol_vars, turn_vars, tool_vars, norm>>

\* The texts tracked in SpecSurvey: a keyword and a number.
SampleTexts == {<<"naam">>, <<"4">>}

\* One call of _track_survey_response; norm holds the call of
\* _normalize_arabic_response made in it.
TrackSurveyResponse(response_text) ==
    /\ Len(Get(survey, "collected_responses", <<>>)) < MaxResponses
    /\ LET r == track_survey_response(survey, response_text)
       IN  /\ survey' = r.ctx
           /\ norm' = IF r.recorded
                      THEN [text |-> response_text, question_type |-> r.question_type,
                            done |-> TRUE, out_text |-> r.normalized.out_text,
                            value |-> r.normalized.value]
                      ELSE norm
           /\ last_op' = [op |-> "track",
                          outcome |-> IF r.recorded THEN "recorded" ELSE "dropped",
                          result |-> r.recorded, raised |-> r.raised, to_peer |-> r.to_peer,
                          answers |-> <<>>]
    /\ UNCHANGED <<admission_vars, rate_history, protocol_vars, turn_vars, tool_vars, posts,
                   submits>>

SubmitSurveyResponses(outcome) ==
    /\ submits < MaxSubmits
    /\ LET r == submit_survey_responses(survey, outcome)
       IN  /\ survey' = r.ctx
           /\ posts' = posts + r.posted
           /\ last_op' = [op |-> "submit", outcome |-> r.outcome, result |-> r.posted > 0,
                          raised |-> r.raised, to_peer |-> r.to_peer, answers |-> r.answers]
    /\ submits' = submits + 1
    /\ SurveyRest

IsSurveyComplete ==
    /\ last_op' = [op |-> "is_complete", outcome |-> "returned",
                   result |-> is_survey_complete(survey), raised |-> FALSE, to_peer |-> 0,
                   answers |-> <<>>]
    /\ UNCHANGED <<survey, posts, submits>>
    /\ SurveyRest

SurveyInit ==
    /\ AdmissionInit
    /\ telephony_token = None
    /\ survey \in SurveyContexts
    /\ norm = NoNorm
    /\ logic = NoLogic /\ conv = NoConv /\ tok = NoTok /\ request = NoRequest

SurveyNext ==
    \/ \E outcome \in SubmitOutcomes : SubmitSurveyResponses(outcome)
    \/ IsSurveyComplete
    \/ \E response_text \in SampleTexts : TrackSurveyResponse(response_text)

SpecSurvey == SurveyInit /\ [][SurveyNext]_vars

(***************************************************************************)
(* SpecTrack applies _track_survey_response once to any text of Texts, in  *)
(* a session that has recorded nothing yet, for every current question.    *)
(***************************************************************************)
TrackContexts ==
    {SurveyContext(NoValue, NoValue, NoValue, 0, question) : question \in Questions}

TrackInit ==
    /\ AdmissionInit
    /\ telephony_token = None
    /\ survey \in TrackContexts
    /\ logic = NoLogic /\ conv = NoConv /\ tok = NoTok /\ request = NoRequest
    /\ \E text \in Texts : norm = [NoNorm EXCEPT !.text = text]

TrackPending == ~norm.done /\ last_op = NoOp /\ TrackSurveyResponse(norm.text)

TrackNext == TrackPending

SpecTrack == TrackInit /\ [][TrackNext]_vars

(***************************************************************************)
(* SpecToken: the token service alone.  A token is issued for any session  *)
(* id and client address, the clock advances by steps around the lifetime  *)
(* of a token, and the token, or a token of the same payload signed with   *)
(* another key, is verified.  Time is counted in whole seconds, as the exp *)
(* claim of a token is.                                                    *)
(***************************************************************************)
TokenSteps == {1, TOKEN_TTL - 1, TOKEN_TTL}

TokenSessionIds == {SessionId("auth", 0, 0), SessionId("auth", 1, 0), SessionId("internal", 0, 1)}

TokenClientIPs == ClientIPs \cup {"system"}

TokenRest == UNCHANGED <<telephony_token, active_sessions, maqsam_sessions, session_rate_limits,
                         tokens, http, pc, ep, cred, sid, accepted, close_code, processed,
                         id_collision, cred_valid, rate_history, protocol_vars, turn_vars,
                         survey_vars, logic, conv, request>>

TokenTick(d) ==
    /\ ticks < MaxTokenTicks
    /\ now' = now + d
    /\ ticks' = ticks + 1
    /\ UNCHANGED tok
    /\ TokenRest

\* token = generate_session_token(session_id, client_ip)
IssueToken ==
    /\ ~tok.issued
    /\ tok' = [tok EXCEPT !.issued = TRUE,
                          !.token = generate_session_token(tok.session_id, tok.client_ip, now)]
    /\ UNCHANGED <<now, ticks>>
    /\ TokenRest

\* payload = verify_token(token), for the token issued or for one that was
\* signed with another key.
VerifyToken(signed_with_secret) ==
    /\ tok.issued
    /\ ~tok.verified
    /\ LET presented == IF signed_with_secret THEN tok.token
                        ELSE [tok.token EXCEPT !.kind = "forged"]
       IN  tok' = [tok EXCEPT !.verified = TRUE,
                              !.presented = presented,
                              !.verified_at = now,
                              !.payload = verify_token(presented, now)]
    /\ UNCHANGED <<now, ticks>>
    /\ TokenRest

TokenInit ==
    /\ AdmissionInit
    /\ telephony_token = None
    /\ survey = EmptySurvey /\ norm = NoNorm
    /\ logic = NoLogic /\ conv = NoConv /\ request = NoRequest
    /\ \E session_id \in TokenSessionIds, client_ip \in TokenClientIPs :
          tok = [NoTok EXCEPT !.session_id = session_id, !.client_ip = client_ip]

TokenNext ==
    \/ \E d \in TokenSteps : TokenTick(d)
    \/ IssueToken
    \/ \E signed_with_secret \in BOOLEAN : VerifyToken(signed_with_secret)

SpecToken == TokenInit /\ [][TokenNext]_vars

(***************************************************************************)
(* The decoders to 16 kHz PCM in a WAV container: decode_webm_audio        *)
(* (main.py) and _convert_ulaw_to_wav (maqsam_handler.py).  Both run the   *)
(* codec tool as a child process; what the tool does is the environment's  *)
(* choice: whether a probe of the tool succeeds, how the conversion ends   *)
(* and how many bytes it writes to its output.  A decoder returns None     *)
(* (NoValue) or the bytes of the output, written as <<their number>>.      *)
(***************************************************************************)
ToolExits == {"zero", "nonzero", "timeout"}

OutputSizes == 0..MaxOutputSize

\* What a conversion returns, and whether the process it started is still
\* running when it returns.
Returns(value, running) == [result |-> value, running |-> running]

\* decode_webm_audio: on TimeoutExpired the process is killed.
decode_webm_audio(tool) ==
    IF ~tool.available THEN Returns(NoValue, FALSE)
    ELSE IF tool.exit = "timeout" THEN Returns(NoValue, FALSE)
    ELSE IF tool.exit # "zero" THEN Returns(NoValue, FALSE)
    ELSE IF tool.size = 0 \/ tool.size < WAV_HEADER_SIZE THEN Returns(NoValue, FALSE)
    ELSE Returns(<<tool.size>>, FALSE)

\* _convert_ulaw_to_wav: TimeoutExpired is caught by the outer handler,
\* which returns None and leaves the process alone.
convert_ulaw_to_wav(tool) ==
    IF ~tool.available THEN Returns(NoValue, FALSE)
    ELSE IF tool.exit = "timeout" THEN Returns(NoValue, TRUE)
    ELSE IF tool.exit # "zero" THEN Returns(NoValue, FALSE)
    ELSE Returns(<<tool.size>>, FALSE)

\* _convert_wav_to_ulaw: the same statements in the other direction.
convert_wav_to_ulaw(tool) ==
    IF ~tool.available THEN Returns(NoValue, FALSE)
    ELSE IF tool.exit = "timeout" THEN Returns(NoValue, TRUE)
    ELSE IF tool.exit # "zero" THEN Returns(NoValue, FALSE)
    ELSE Returns(<<tool.size>>, FALSE)

CodecRest == UNCHANGED <<admission_vars, rate_history, protocol_vars, turn_vars, survey_vars,
                         logic, tok, request>>

\* One call of a decoder on what the tool is going to do.
Convert(decoder, returned) ==
    /\ conv.decoder = "none"
    /\ conv' = [conv EXCEPT !.decoder = decoder, !.result = returned.result,
                            !.running = returned.running]
    /\ CodecRest

DecodeWebmAudio == Convert("decode_webm_audio", decode_webm_audio(conv))

ConvertUlawToWav == Convert("_convert_ulaw_to_wav", convert_ulaw_to_wav(conv))

ConvertWavToUlaw == Convert("_convert_wav_to_ulaw", convert_wav_to_ulaw(conv))

CodecInit ==
    /\ AdmissionInit
    /\ telephony_token = None
    /\ survey = EmptySurvey /\ norm = NoNorm
    /\ logic = NoLogic /\ tok = NoTok /\ request = NoRequest
    /\ \E available \in BOOLEAN, exit \in ToolExits, size \in OutputSizes :
          conv = [NoConv EXCEPT !.available = available, !.exit = exit, !.size = size]

CodecNext ==
    \/ DecodeWebmAudio
    \/ ConvertUlawToWav
    \/ ConvertWavToUlaw

SpecCodec == CodecInit /\ [][CodecNext]_vars

(***************************************************************************)
(* _process_questionnaire_logic (services.py).  A transcription is the     *)
(* sequence of its words; the Arabic words are written in Latin letters:   *)
(*   alam = "ألم"  wajaa = "وجع"  uaani min alam = "أعاني من ألم"          *)
(*   ataallam = "أتألم"  dawaa = "دواء"  adwiya = "أدوية"                  *)
(*   atanawal = "أتناول"  aarad = "أعراض"  mushkila = "مشكلة"              *)
(*   mashakil = "مشاكل"  mawid = "موعد"  ziyara = "زيارة"  tabib = "طبيب"  *)
(*   sifr wahid ithnan thalatha arbaa khamsa sitta sabaa thamaniya tisaa   *)
(*   ashara = "صفر" ... "عشرة"                                             *)
(* A keyword occurs in a text when its words occur in it consecutively,    *)
(* a word of the text containing the keyword's word (Python's "in" on      *)
(* strings); the numeric branch compares whole words.  SpecLogic applies   *)
(* the function once to any text of at most MaxWords words of LogicWords.  *)
(***************************************************************************)
pain_keywords == {<<"alam">>, <<"wajaa">>, <<"uaani", "min", "alam">>, <<"ataallam">>,
                  <<"dolor">>, <<"pain">>}

medicine_keywords == {<<"dawaa">>, <<"adwiya">>, <<"atanawal">>, <<"medicine">>,
                      <<"medication">>}

symptom_keywords == {<<"aarad">>, <<"mushkila">>, <<"mashakil">>, <<"symptoms">>,
                     <<"problems">>}

appointment_keywords == {<<"mawid">>, <<"ziyara">>, <<"tabib">>, <<"appointment">>,
                         <<"doctor">>}

numbers_keywords == {<<"sifr">>, <<"wahid">>, <<"ithnan">>, <<"thalatha">>, <<"arbaa">>,
                     <<"khamsa">>, <<"sitta">>, <<"sabaa">>, <<"thamaniya">>, <<"tisaa">>,
                     <<"ashara">>, <<"zero">>, <<"one">>, <<"two">>}

\* The word lists of the numeric branch (398-405).
NoPainWords == {"sifr", "zero"}

MildWords == {"wahid", "one", "ithnan", "two", "thalatha", "three"}

ModerateWords == {"arbaa", "four", "khamsa", "five", "six"}

SevereWords == {"sabaa", "seven", "thamaniya", "eight", "tisaa", "nine", "ashara", "ten"}

\* The words of the texts: a keyword of each category, number words of each
\* list, a number keyword that is in no list ("ستة"), a word of a list that
\* is no keyword, a word that contains a keyword, a word in capitals and a
\* word that is nothing of these.
LogicWords == {"pain", "PAIN", "dawaa", "symptoms", "doctor", "zero", "two", "khamsa",
               "tisaa", "sitta", "six", "someone", "x"}

UserTexts == UNION {[1..n -> LogicWords] : n \in 0..MaxWords}

\* The keyword's word occurs in the word of the text.
InWord(keyword_word, word) ==
    \/ keyword_word = word
    \/ keyword_word = "one" /\ word = "someone"
    \/ keyword_word = "alam" /\ word = "ataallam"

\* keyword in user_text_lower
Occurs(keyword, words) ==
    \E i \in 0..(Len(words) - Len(keyword)) :
        \A j \in 1..Len(keyword) : InWord(keyword[j], words[i + j])

AnyOccurs(keywords, words) == \E keyword \in keywords : Occurs(keyword, words)

\* str.lower() on the words.
LowerWords(words) == [i \in 1..Len(words) |-> IF words[i] = "PAIN" THEN "pain" ELSE words[i]]

\* The loop of the numeric branch: the first word that is in one of the
\* lists decides; the loop ends without a return when no word is.
NumberReply(words) ==
    LET listed == {i \in 1..Len(words) :
                      words[i] \in NoPainWords \cup MildWords \cup ModerateWords \cup SevereWords}
    IN  IF listed = {} THEN None
        ELSE LET word == words[CHOOSE i \in listed : \A j \in listed : i <= j]
             IN  IF word \in NoPainWords THEN "no_pain"
                 ELSE IF word \in MildWords THEN "mild_pain"
                 ELSE IF word \in ModerateWords THEN "moderate_pain"
                 ELSE "severe_pain"

\* _process_questionnaire_logic that asks about medication first.
process_questionnaire_logic_medicine_first(user_text) ==
    LET user_text_lower == LowerWords(user_text)
    IN  IF AnyOccurs(medicine_keywords, user_text_lower) THEN "ask_medication"
        ELSE IF AnyOccurs(pain_keywords, user_text_lower) THEN "ask_pain_scale"
        ELSE IF AnyOccurs(symptom_keywords, user_text_lower) THEN "ask_symptoms"
        ELSE IF AnyOccurs(appointment_keywords, user_text_lower) THEN "ask_appointment"
        ELSE IF AnyOccurs(numbers_keywords, user_text_lower) THEN NumberReply(user_text_lower)
        ELSE IF Len(user_text) < 2 THEN "ask_more_detail"
        ELSE "ask_description"

\* The reply, named by what it says; None when the function returns nothing.
process_questionnaire_logic(user_text) ==
    LET user_text_lower == LowerWords(user_text)
    IN  IF AnyOccurs(pain_keywords, user_text_lower) THEN "ask_pain_scale"
        ELSE IF AnyOccurs(medicine_keywords, user_text_lower) THEN "ask_medication"
        ELSE IF AnyOccurs(symptom_keywords, user_text_lower) THEN "ask_symptoms"
        ELSE IF AnyOccurs(appointment_keywords, user_text_lower) THEN "ask_appointment"
        ELSE IF AnyOccurs(numbers_keywords, user_text_lower) THEN NumberReply(user_text_lower)
        ELSE IF Len(user_text) < 2 THEN "ask_more_detail"
        ELSE "ask_description"

ProcessQuestionnaireLogic ==
    /\ ~logic.done
    /\ logic' = [logic EXCEPT !.done = TRUE, !.reply = process_questionnaire_logic(logic.user_text)]
    /\ UNCHANGED <<admission_vars, rate_history, protocol_vars, turn_vars, survey_vars, conv, tok, request>>

LogicInit ==
    /\ AdmissionInit
    /\ telephony_token = None
    /\ survey = EmptySurvey /\ norm = NoNorm
    /\ conv = NoConv /\ tok = NoTok /\ request = NoRequest
    /\ \E user_text \in UserTexts : logic = [NoLogic EXCEPT !.user_text = user_text]

LogicNext == ProcessQuestionnaireLogic

SpecLogic == LogicInit /\ [][LogicNext]_vars

(***************************************************************************)
(* Properties of admission and of the session registry.                    *)
(***************************************************************************)
\* Every record marked active, in the relay registry and in the JSON
\* telephony handler's registry together.
TotalActive == ActiveCount(active_sessions) + ActiveCount(maqsam_sessions)

\* The connections that were accepted with a session token and are open.
OpenTokenConns == {c \in AllConns : ep[c] = "secure" /\ cred[c].kind = "jwt" /\ pc[c] = "loop"}

\* C1: the number of active session records never exceeds
\* MAX_CONCURRENT_SESSIONS, whichever path registered them (token issuance,
\* the secure relay with or without a token, the shared-secret relay, the
\* JSON telephony handler).
C1_ActiveWithinCap == TotalActive <= MAX_CONCURRENT_SESSIONS

\* C2: of the attempts that present a valid token at the same time, no more
\* than MAX_CONCURRENT_SESSIONS are accepted; the attempt over the cap is
\* refused with the capacity status.
C2_AcceptedWithinCap == Cardinality(OpenTokenConns) <= MAX_CONCURRENT_SESSIONS

\* C8: a connection whose credential was missing, invalid, expired or not
\* the configured secret is never accepted, gets no session record and has
\* no audio frame processed.
C8_RefusedBeforeAccept ==
    \A c \in AllConns :
        (ep[c] # "none" /\ ~cred_valid[c]) =>
            /\ ~accepted[c]
            /\ sid[c] = NoSid
            /\ ~processed[c]

\* C9: a session record that has become inactive is never active again,
\* also when its token is presented on a later connection.
C9_InactiveStaysInactive ==
    [][\A s \in DOMAIN active_sessions :
          ~active_sessions[s].active => ~active_sessions'[s].active]_vars

\* C10: no session is created under the id of an earlier session, so that
\* registering a session never overwrites another session's record.
C10_DistinctSessionIds == ~id_collision

\* The allows of key k whose time lies in the 60 seconds up to and
\* including t: the trailing window (t - 60, t].
AllowsInWindow(k, t) ==
    Cardinality({i \in 1..Len(admitted[k]) :
                    t - RATE_WINDOW < admitted[k][i] /\ admitted[k][i] <= t})

\* C3: for every key and every non-decreasing sequence of call times, the
\* number of allow verdicts in any trailing 60-second window is at most
\* RATE_LIMIT_PER_MINUTE.  (A window's count is largest when it ends at an
\* allow, and a window ending later than now counts no more than the one
\* ending at now.)
C3_AllowsWithinLimit ==
    \A k \in ClientIPs :
        \A i \in 1..Len(admitted[k]) :
            AllowsInWindow(k, admitted[k][i]) <= RATE_LIMIT_PER_MINUTE

\* A key was allowed more often than the limit over the run, the window
\* ending now holds RATE_LIMIT_PER_MINUTE of its allows, and its last call
\* was denied.
C3_Witness ==
    \E k \in ClientIPs :
        /\ Len(admitted[k]) > RATE_LIMIT_PER_MINUTE
        /\ AllowsInWindow(k, now) = RATE_LIMIT_PER_MINUTE
        /\ rate_verdict = [key |-> k, allow |-> FALSE]

\* The bucket of key k in a table of rate limits, empty if there is none.
Bucket(limits, k) == IF k \in DOMAIN limits THEN limits[k] ELSE <<>>

\* The number of timestamps of a bucket that are less than 60 seconds old
\* at time t.
Fresh(stamps, t) == Cardinality({i \in 1..Len(stamps) : t - stamps[i] < RATE_WINDOW})

\* C39: denied checks do not prolong a client's lockout.  A denied check
\* adds no timestamp to the bucket, and a check made at least 60 seconds
\* after the oldest timestamp kept in a full bucket is admitted, however
\* many checks were denied in between.
C39_DenialsDoNotProlongLockout ==
    [][ticks' = ticks =>
          LET k == rate_verdict'.key
              before == Bucket(session_rate_limits, k)
              after == Bucket(session_rate_limits', k)
          IN  /\ ~rate_verdict'.allow => after = Prune(before, now)
              /\ (Len(before) >= RATE_LIMIT_PER_MINUTE /\ now - before[1] >= RATE_WINDOW)
                    => rate_verdict'.allow]_vars

\* A client was denied on a full bucket and admitted by its next check,
\* made when the oldest timestamp of that bucket was 60 seconds old.
C39_Witness ==
    \E k \in ClientIPs :
        /\ verdicts[k] = <<FALSE, TRUE>>
        /\ rate_verdict = [key |-> k, allow |-> TRUE]
        /\ Len(admitted[k]) > RATE_LIMIT_PER_MINUTE
        /\ now - admitted[k][Len(admitted[k]) - RATE_LIMIT_PER_MINUTE] >= RATE_WINDOW
        /\ admitted[k][Len(admitted[k])] = now

\* C26: rate-limit checks are atomic per key under any interleaving of the
\* checks of several keys: an admitted check for a key leaves exactly one
\* more timestamp, its own, in that key's bucket beside the timestamps
\* still in the window, so that no increment is lost (the bucket holds as
\* many timestamps of the current window as checks were admitted in it);
\* and a check for one key never changes the bucket of another key.
C26_RateChecksAtomicPerKey ==
    [][ticks' = ticks =>
          LET k == rate_verdict'.key
              before == Bucket(session_rate_limits, k)
              after == Bucket(session_rate_limits', k)
          IN  /\ rate_verdict'.allow =>
                    /\ Len(after) = Fresh(before, now) + 1
                    /\ after[Len(after)] = now
              /\ \A k2 \in ClientIPs \ {k} :
                    /\ (k2 \in DOMAIN session_rate_limits') = (k2 \in DOMAIN session_rate_limits)
                    /\ Bucket(session_rate_limits', k2) = Bucket(session_rate_limits, k2)
              /\ \A k2 \in ClientIPs :
                    Fresh(Bucket(session_rate_limits', k2), now) = Fresh(admitted'[k2], now)]_vars

\* Checks of two keys have been interleaved: both buckets are filled, one
\* of them to the limit, and the last check was admitted.
C26_Witness ==
    /\ rate_verdict.allow
    /\ \A k \in ClientIPs : Len(Bucket(session_rate_limits, k)) >= 1
    /\ \E k \in ClientIPs : Len(Bucket(session_rate_limits, k)) = RATE_LIMIT_PER_MINUTE
    /\ \E k \in ClientIPs : admitted[k][1] # admitted[k][Len(admitted[k])]

\* C27: a connection refused for capacity (rate limit exceeded or session
\* cap reached) is closed with a status other than the one of an
\* authentication failure, is never accepted and gets no session; the
\* refusal leaves the session registries as they were; and a check that the
\* rate limiter denies (the client's bucket is full) adds no timestamp to
\* the bucket.
C27_CapacityRefusalHasNoEffect ==
    [][/\ \A c \in AllConns :
             close_code'[c] = CLOSE_TOO_MANY =>
                 /\ close_code'[c] # CLOSE_UNAUTHORIZED
                 /\ pc'[c] = "done"
                 /\ ~accepted'[c]
                 /\ sid'[c] = NoSid
       /\ \A c \in AllConns :
             (close_code[c] = 0 /\ close_code'[c] = CLOSE_TOO_MANY) =>
                 /\ active_sessions' = active_sessions
                 /\ maqsam_sessions' = maqsam_sessions
       /\ \A k \in ClientIPs :
             Fresh(Bucket(session_rate_limits, k), now) >= RATE_LIMIT_PER_MINUTE =>
                 Len(Bucket(session_rate_limits', k)) <= Len(Bucket(session_rate_limits, k))]_vars

\* A connection without a token was refused by the rate limiter and a
\* connection with a valid token was refused for capacity.
C27_Witness ==
    \E c1, c2 \in AllConns :
        /\ close_code[c1] = CLOSE_TOO_MANY /\ cred[c1].kind = "none"
        /\ close_code[c2] = CLOSE_TOO_MANY /\ cred_valid[c2]
        /\ \A k \in ClientIPs : Len(Bucket(session_rate_limits, k)) <= RATE_LIMIT_PER_MINUTE

\* The active sessions other than session s.
OtherActive(s) ==
    Cardinality({x \in DOMAIN active_sessions : x # s /\ active_sessions[x].active})

\* C38: a client that presents the valid token it was issued, and passes
\* the rate limiter, is admitted to the token-authenticated relay whenever
\* fewer than MAX_CONCURRENT_SESSIONS other sessions are active: the record
\* made for the client when the token was issued does not count against
\* the client's own connection.
C38_OwnIssuanceRecordDoesNotCount ==
    [][\A c \in AllConns :
          (/\ pc[c] = "idle" /\ pc'[c] # "idle" /\ ep'[c] = "secure"
           /\ cred'[c] \in tokens /\ now < cred'[c].exp
           /\ \E k \in ClientIPs :
                 Bucket(session_rate_limits', k)
                    = Append(Prune(Bucket(session_rate_limits, k), now), now)
           /\ OtherActive(cred'[c].session_id) < MAX_CONCURRENT_SESSIONS)
              => pc'[c] = "accepting"]_vars

ConnectionOpen(c) == pc[c] \notin {"idle", "accepting", "done"}

\* C16: every session record marked active belongs to a connection that is
\* currently open; no record stays active without a live connection.
C16_ActiveHasOpenConnection ==
    /\ \A s \in DOMAIN active_sessions :
          active_sessions[s].active => \E c \in AllConns : sid[c] = s /\ ConnectionOpen(c)
    /\ \A s \in DOMAIN maqsam_sessions :
          maqsam_sessions[s].active => \E c \in AllConns : sid[c] = s /\ ConnectionOpen(c)

\* get_active_sessions: total_sessions of a registry.
TotalCount(sessions) == Cardinality(DOMAIN sessions)

\* The registry the handler of connection c keeps its record in.
RegistryOf(c) == IF ep[c] = "maqsam" THEN maqsam_sessions ELSE active_sessions

\* The handler of c leaves through its finally clause in this step.
Unregisters(c) == pc[c] \in {"setup", "ready", "loop", "sending"} /\ pc'[c] = "done"

\* C25: unregistering is idempotent and keeps history: marking a session
\* inactive when its record is already inactive changes nothing, no step
\* removes a record from a registry, so that the total session count never
\* decreases, and the active count is at most the total count.
C25_UnregisterKeepsHistory ==
    [][/\ DOMAIN active_sessions \subseteq DOMAIN active_sessions'
       /\ DOMAIN maqsam_sessions \subseteq DOMAIN maqsam_sessions'
       /\ TotalCount(active_sessions') >= TotalCount(active_sessions)
       /\ TotalCount(maqsam_sessions') >= TotalCount(maqsam_sessions)
       /\ ActiveCount(active_sessions') <= TotalCount(active_sessions')
       /\ ActiveCount(maqsam_sessions') <= TotalCount(maqsam_sessions')
       /\ \A c \in AllConns :
             (/\ Unregisters(c)
              /\ sid[c] \in DOMAIN RegistryOf(c)
              /\ ~RegistryOf(c)[sid[c]].active)
                 => (active_sessions' = active_sessions /\ maqsam_sessions' = maqsam_sessions)]_vars

\* Two connections of one session have both ended: the second one marked
\* a record that was inactive already.
C25_Witness ==
    \E c1, c2 \in AllConns :
        /\ c1 # c2
        /\ pc[c1] = "done" /\ pc[c2] = "done"
        /\ accepted[c1] /\ accepted[c2]
        /\ sid[c1] = sid[c2]
        /\ sid[c1] \in DOMAIN active_sessions
        /\ ~active_sessions[sid[c1]].active
        /\ TotalCount(active_sessions) >= 1

(***************************************************************************)
(* Properties of the JSON telephony protocol.                              *)
(***************************************************************************)
\* The audio.input outcomes in which a conversion by the codec tool failed:
\* of the caller's audio, or of the synthesized reply.
ConversionFailures == {"inbound_fail", "outbound_fail"}

\* C4: when the first message is not session.setup the connection is
\* closed with 1002 and the handler does nothing further: no session.ready
\* is sent and the Active loop is never entered.
C4_NothingAfterProtocolError ==
    \A c \in AllConns :
        first_msg[c] \notin {"none", "session.setup"} =>
            /\ close_code[c] = CLOSE_PROTOCOL_ERROR
            /\ n_ready[c] = 0
            /\ ~loop_entered[c]

\* The session is in the Active phase: it was set up by a session.setup
\* message and its handler stands at the receive of the loop.
InActivePhase(c) == first_msg[c] = "session.setup" /\ pc[c] = "loop"

\* C5: in the Active phase, a failed conversion during an audio.input turn
\* has exactly one error message sent for that turn (the connection stays
\* open: the handler is back at the receive of its loop).
C5_OneErrorPerFailedConversion ==
    \A c \in AllConns :
        (InActivePhase(c) /\ turn[c].outcome \in ConversionFailures) => turn[c].errors = 1

\* C7: a turn in which speech was transcribed records the caller's answer:
\* the collected responses hold one more entry after the turn than before.
C7_SpeechTurnRecordsAnswer ==
    [][\A c \in AllConns :
          (InActivePhase(c) /\ turns'[c] = turns[c] + 1 /\ turn'[c].speech)
              => collected'[c] = collected[c] + 1]_vars

\* The frames whose body is malformed.
MalformedBodies == {"malformed", "nonobject", "badshape"}

\* C11: in the Active phase a message with a malformed body is skipped: the
\* session's record is unchanged, the connection stays open and the handler
\* is back at the receive of its loop.
C11_MalformedSkipped ==
    [][\A c \in AllConns :
          (InActivePhase(c) /\ turns'[c] = turns[c] + 1 /\ turn'[c].msg \in MalformedBodies)
              => (pc'[c] = "loop" /\ maqsam_sessions' = maqsam_sessions)]_vars

\* C12: on a connection whose first message is a well-formed session.setup
\* the handler stores the declared call context, sends session.ready once
\* and only then enters the loop: session.ready is never sent twice and has
\* been sent before the loop is entered and before any response.stream or
\* error message.
C12_ReadyOnceBeforeLoop ==
    \A c \in AllConns :
        first_msg[c] = "session.setup" =>
            /\ call_context[c] = declared[c]
            /\ n_ready[c] <= 1
            /\ (loop_entered[c] \/ turns[c] > 0) => n_ready[c] = 1
            /\ (turn[c].errors + turn[c].streams > 0) => n_ready[c] = 1

\* A session set up with a declared context was confirmed and has streamed
\* a reply.
C12_Witness ==
    \E c \in AllConns :
        /\ first_msg[c] = "session.setup"
        /\ call_context[c] = "caller-context"
        /\ n_ready[c] = 1
        /\ turn[c].streams = 1

(***************************************************************************)
(* Properties of the relay handlers' turns.                                *)
(***************************************************************************)
\* C13: a turn in which the speech engine yields no audio never ends the
\* connection: the handler is not ended by the turn, and a generic relay
\* that is back at its receive has sent its error reply.
C13_TurnFailureNotFatal ==
    \A c \in AllConns :
        last[c].yield \in {"no_audio", "no_text"} =>
            /\ ~last[c].fatal
            /\ (pc[c] = "loop" /\ ep[c] # "healthcare") => last[c].reply = "error"

\* C14: when a handler is back at its receive or has terminated, no audio
\* file synthesized for one of its turns remains.
C14_NoLeftoverAudio ==
    \A c \in AllConns :
        pc[c] \in {"loop", "done"} => ~(wav.exists /\ wav.owner = c)

\* C15: no session sends or deletes the payload synthesized for another
\* session, or finds its own payload removed by another session.
C15_OwnPayloadOnly == crossed = {}

\* C32: in the generic audio relay a frame is received only at the receive
\* of the loop and the relay then owes one reply; it is back at its receive
\* exactly when that one reply has been sent, the audio if audio was
\* generated and the error text if not; a disconnect or fault closes the
\* relay with at most one error frame, and a closed relay receives and
\* sends nothing more.
C32_OneReplyPerFrame ==
    [][\A c \in AllConns :
          ep[c] = "secure" =>
              /\ turns'[c] # turns[c] =>
                     /\ pc[c] = "loop" /\ pc'[c] = "sending"
                     /\ turns'[c] = turns[c] + 1
                     /\ last'[c].reply = "none"
              /\ (pc[c] = "sending" /\ pc'[c] # "sending") =>
                     IF last'[c].reply = "none"
                     THEN pc'[c] = "done" /\ last'[c].close_errors \in {0, 1}
                     ELSE /\ pc'[c] = "loop"
                          /\ last'[c].close_errors = 0
                          /\ last'[c].reply =
                                 IF last[c].yield = "audio" THEN "audio" ELSE "error"
              /\ (pc[c] = "loop" /\ pc'[c] = "done") =>
                     /\ last'[c].reply = last[c].reply
                     /\ last'[c].close_errors \in {0, 1}
              /\ pc[c] = "done" =>
                     pc'[c] = "done" /\ turns'[c] = turns[c] /\ last'[c] = last[c]
      ]_vars

\* A generic relay that answered one frame with the audio and the next with
\* the error text, and was then closed by a fault with its error frame sent.
C32_Witness ==
    \E c \in AllConns :
        /\ ep[c] = "secure" /\ pc[c] = "done" /\ turns[c] = MaxTurns
        /\ last[c].yield # "audio" /\ last[c].reply = "error"
        /\ last[c].close_errors = 1

\* C40: a healthcare relay ends a turn by leaving its loop exactly when the
\* responses of its patient_data hold at least 3 entries after the turn; no
\* step removes an entry from the responses; and a session that keeps
\* answering, turn after turn, eventually holds the 3 entries and ends.
C40_AnsweringReachesCompletion ==
    /\ [][\A c \in AllConns :
             ep[c] = "healthcare" =>
                 /\ healthcare_context[c].patient_data.responses
                        \subseteq healthcare_context'[c].patient_data.responses
                 /\ (pc[c] = "sending" /\ pc'[c] # "sending") =>
                        (pc'[c] = "done" <=> is_questionnaire_complete(healthcare_context'[c]))
        ]_vars
    /\ \A c \in AllConns :
           []<><<pc[c] = "sending" /\ pc'[c] = "loop" /\ ep[c] = "healthcare">>_vars
               => <>(is_questionnaire_complete(healthcare_context[c]))

\* C34: after any sequence of messages of the active phase the DTMF
\* history of the session is the digits of the call.dtmf events received,
\* in the order of their arrival; handling a call.dtmf event sends nothing
\* to the peer and changes no other field of the session.
C34_DtmfHistoryIsDigitsInOrder ==
    [][\A c \in AllConns :
          turns'[c] = turns[c] + 1 =>
              IF turn'[c].msg = "call.dtmf"
              THEN /\ dtmf_inputs'[c] = IF turn'[c].digit \in {None, NotAnObject}
                                        THEN dtmf_inputs[c]
                                        ELSE Append(dtmf_inputs[c], turn'[c].digit)
                   /\ turn'[c].errors = 0 /\ turn'[c].streams = 0
                   /\ pc'[c] = pc[c]
                   /\ maqsam_sessions' = maqsam_sessions
                   /\ collected'[c] = collected[c]
                   /\ call_context'[c] = call_context[c]
              ELSE dtmf_inputs'[c] = dtmf_inputs[c]]_vars

(***************************************************************************)
(* Properties of the questionnaire functions.                              *)
(***************************************************************************)
Submitted(ctx) == Get(ctx, "responses_submitted", FALSE)

FailedSubmissions == {"request_failed", "status_other"}

\* C17: for every session, at most one submission request is sent to the
\* survey backend over the session's lifetime, however many times the
\* submit operation is invoked on it.
C17_AtMostOneSubmission == posts <= 1

\* C18: when the backend answers a submission with a non-success status or
\* the request fails, that call of submit has made exactly one request (no
\* further attempt), raises nothing to its caller, sends nothing to the
\* peer and leaves the session's responses_submitted flag as it was; and
\* the flag becomes true only in a call that received a success response.
C18_FailedSubmissionIsSilent ==
    [][/\ (submits' = submits + 1 /\ last_op'.outcome \in FailedSubmissions)
            => /\ posts' = posts + 1
               /\ ~last_op'.raised
               /\ last_op'.to_peer = 0
               /\ Submitted(survey') = Submitted(survey)
       /\ (Submitted(survey') /\ ~Submitted(survey))
            => (submits' = submits + 1 /\ last_op'.outcome = "status_200")]_vars

C18_Witness ==
    /\ last_op.op = "submit"
    /\ last_op.outcome \in FailedSubmissions
    /\ posts = 1
    /\ ~Submitted(survey)

CollectedCount == IF "collected_responses" \in DOMAIN survey THEN Len(survey["collected_responses"]) ELSE 0

TotalIsPositive == "total_questions" \in DOMAIN survey /\ survey["total_questions"] > 0

\* C19: is_complete returns true exactly when the number of collected
\* responses is at least total_questions and total_questions > 0; it is
\* false when total_questions is 0 or unset whatever the response count,
\* and true when the response count equals a positive total_questions.
C19_CompleteIffAllAnswered ==
    last_op.op = "is_complete" =>
        /\ last_op.result <=> (TotalIsPositive /\ CollectedCount >= survey["total_questions"])
        /\ ~TotalIsPositive => ~last_op.result
        /\ (TotalIsPositive /\ CollectedCount = survey["total_questions"]) => last_op.result

C19_Witness ==
    /\ last_op.op = "is_complete"
    /\ last_op.result
    /\ TotalIsPositive
    /\ CollectedCount = survey["total_questions"]

Normalized == Lower(Strip(norm.text))

Affirmative == AnyIn(yes_patterns, Normalized)

Negative == AnyIn(no_patterns, Normalized)

Uncertain == AnyIn(uncertain_patterns, Normalized)

\* C20: for a yes/no question the text is checked against the affirmative,
\* the negative and the uncertain keywords in that order by substring
\* containment and the first set with a match decides: affirmative gives
\* value 1, negative gives 0, uncertain gives 3; a text matching none of
\* the sets is returned as it was given, with no value; a text containing
\* both an affirmative and a negative keyword resolves as affirmative.
C20_FirstKeywordSetDecides ==
    (norm.done /\ norm.question_type = "yes_no") =>
        /\ Affirmative => (norm.value = <<1>> /\ norm.out_text = NormalYes)
        /\ (~Affirmative /\ Negative) => (norm.value = <<0>> /\ norm.out_text = NormalNo)
        /\ (~Affirmative /\ ~Negative /\ Uncertain)
              => (norm.value = <<3>> /\ norm.out_text = NormalUncertain)
        /\ (~Affirmative /\ ~Negative /\ ~Uncertain)
              => (norm.value = NoValue /\ norm.out_text = norm.text)
        /\ (Affirmative /\ Negative) => norm.value = <<1>>

C20_Witness ==
    /\ norm.done
    /\ norm.question_type = "yes_no"
    /\ Affirmative
    /\ Negative
    /\ norm.value = <<1>>

RatingGiven == norm.done /\ norm.question_type = "rating" /\ FirstNumber(Normalized) # <<>>

FirstInteger == int(FirstNumber(Normalized))

\* C22 (as stated): for a rating question, a response whose first embedded
\* integer is 7 normalizes to the text "7" with numeric value 7.
C22_SevenIsARating ==
    (RatingGiven /\ FirstInteger = 7) => (norm.out_text = <<"7">> /\ norm.value = <<7>>)

\* C22 (amended): for a rating question, a response whose first embedded
\* integer is 7 is not recognised, 7 being outside the scale 1..5: the
\* result is the text as it was given, with no numeric value; a first
\* integer n within 1..5 gives the text of n with the value n.
C22_SevenIsOutsideScale ==
    RatingGiven =>
        /\ FirstInteger = 7 => (norm.out_text = norm.text /\ norm.value = NoValue)
        /\ FirstInteger \in 1..5 => (norm.out_text = str(FirstInteger) /\ norm.value = <<FirstInteger>>)

C22_Witness ==
    /\ RatingGiven
    /\ FirstInteger = 7
    /\ norm.text = <<"x", Blank, "7">>
    /\ norm.out_text = norm.text
    /\ norm.value = NoValue

Responses(ctx) == IF "collected_responses" \in DOMAIN ctx THEN ctx["collected_responses"] ELSE <<>>

CurrentQuestion == IF "current_question" \in DOMAIN survey THEN survey["current_question"] ELSE EmptyDict

CurrentType == IF "type" \in DOMAIN CurrentQuestion THEN CurrentQuestion["type"] ELSE "yes_no"

CurrentOrder == IF "order" \in DOMAIN CurrentQuestion THEN CurrentQuestion["order"] ELSE 0

\* No question id is set: there is no current question, or it has no id or
\* an empty one.
NoQuestionId == "id" \notin DOMAIN CurrentQuestion \/ CurrentQuestion["id"] = ""

\* C21: every entry recorded by track_response has a response_value in
\* {0, 1, 3} when the current question is a yes_no question, in 1..5 when it
\* is a rating question, or none; for any other question type it is none.
C21_ResponseValueDomain ==
    \A i \in 1..Len(Responses(survey)) :
        LET v == Responses(survey)[i].response_value
        IN  \/ v = NoValue
            \/ CurrentType = "yes_no" /\ v[1] \in {0, 1, 3}
            \/ CurrentType = "rating" /\ v[1] \in 1..5

C21_Witness ==
    /\ CurrentType = "rating"
    /\ Len(Responses(survey)) = 1
    /\ Responses(survey)[1].response_value = <<4>>
    /\ Len(norm.text) = MaxLen

\* C23: track_response called while no question id is set records nothing:
\* the session is unchanged, no error reaches the caller and nothing is
\* sent to the peer; with a question set it appends exactly one entry, which
\* carries that question's id and order.
C23_TrackNeedsQuestion ==
    [][last_op'.op = "track" =>
          /\ ~last_op'.raised
          /\ last_op'.to_peer = 0
          /\ IF NoQuestionId
             THEN survey' = survey
             ELSE /\ Len(Responses(survey')) = Len(Responses(survey)) + 1
                  /\ SubSeq(Responses(survey'), 1, Len(Responses(survey))) = Responses(survey)
                  /\ LET entry == Responses(survey')[Len(Responses(survey'))]
                     IN  /\ entry.question_id = CurrentQuestion["id"]
                         /\ entry.question_order = CurrentOrder]_vars

C23_Witness ==
    /\ last_op.op = "track"
    /\ last_op.outcome = "dropped"
    /\ NoQuestionId
    /\ Len(Responses(survey)) = 1

\* C24: the list of response entries is append-only: over every step of
\* track_response, is_complete and submit each entry recorded before is
\* still there, unmodified and at its position, and the list is not shorter.
C24_ResponsesAppendOnly ==
    [][/\ Len(Responses(survey')) >= Len(Responses(survey))
       /\ SubSeq(Responses(survey'), 1, Len(Responses(survey))) = Responses(survey)]_vars

C24_Witness ==
    /\ last_op.op = "submit"
    /\ last_op.result
    /\ last_op.answers # Responses(survey)
    /\ Len(Responses(survey)) = 2
    /\ Responses(survey)[2].question_id = "q-4"

(***************************************************************************)
(* Properties of the questionnaire turn logic.                             *)
(***************************************************************************)
\* The keyword categories in their order of priority.
Categories ==
    <<[keywords |-> pain_keywords, reply |-> "ask_pain_scale"],
      [keywords |-> medicine_keywords, reply |-> "ask_medication"],
      [keywords |-> symptom_keywords, reply |-> "ask_symptoms"],
      [keywords |-> appointment_keywords, reply |-> "ask_appointment"],
      [keywords |-> numbers_keywords, reply |-> "by the number said"]>>

Matches(n) == AnyOccurs(Categories[n].keywords, LowerWords(logic.user_text))

\* The categories whose keywords occur in the transcription.
Matching == {n \in 1..Len(Categories) : Matches(n)}

PainScaleReplies == {"no_pain", "mild_pain", "moderate_pain", "severe_pain", None}

\* C28: the categories are evaluated in the order pain, medication, general
\* symptom, appointment, numeric pain scale, short input, fallback, and the
\* first category whose keywords occur in the transcription alone decides
\* the reply: a transcription that matches several categories gets the
\* reply of the earliest of them, whatever the order of its words.
C28_FirstCategoryDecides ==
    logic.done =>
        /\ \A n \in 1..4 :
              (Matches(n) /\ \A m \in 1..(n - 1) : ~Matches(m))
                  => logic.reply = Categories[n].reply
        /\ (Matches(5) /\ \A m \in 1..4 : ~Matches(m)) => logic.reply \in PainScaleReplies
        /\ (Matching = {} /\ Len(logic.user_text) < 2) => logic.reply = "ask_more_detail"
        /\ (Matching = {} /\ Len(logic.user_text) >= 2) => logic.reply = "ask_description"

\* A transcription of all five categories, the pain keyword last.
C28_Witness ==
    /\ logic.done
    /\ Cardinality(Matching) >= 3
    /\ Matches(1) /\ Matches(2)
    /\ ~Occurs(<<"pain">>, SubSeq(logic.user_text, 1, Len(logic.user_text) - 1))
    /\ logic.reply = "ask_pain_scale"

\* C37: the turn logic is total: every non-empty transcription gets a
\* reply utterance, also one that holds a number keyword only inside a
\* longer word or names a number no branch of the loop knows; the reply is
\* never missing.
C37_ReplyNeverMissing ==
    (logic.done /\ logic.user_text # <<>>) => logic.reply # None

(***************************************************************************)
(* Properties of the token service.                                        *)
(***************************************************************************)
\* Seconds between the issuance of the token and its verification.
TokenAge == tok.verified_at - tok.token.iat

\* C29: a token issued for (session_id, client_ip) verifies to a payload of
\* the same session_id and client_ip while less than one hour has passed
\* since it was issued; once the hour has passed, or when the token was not
\* signed with the configured secret, verification gives no payload.
C29_TokenRoundTrip ==
    tok.verified =>
        /\ (tok.presented = tok.token /\ TokenAge < TOKEN_TTL)
              => /\ tok.payload # NoCred
                 /\ tok.payload.session_id = tok.session_id
                 /\ tok.payload.client_ip = tok.client_ip
        /\ (TokenAge >= TOKEN_TTL \/ tok.presented # tok.token) => tok.payload = NoCred

\* A token of a client address verified in the last second of its hour.
C29_Witness ==
    /\ tok.verified
    /\ tok.presented = tok.token
    /\ tok.token.iat > 0
    /\ TokenAge = TOKEN_TTL - 1
    /\ tok.client_ip \in ClientIPs
    /\ tok.payload.client_ip = tok.client_ip

(***************************************************************************)
(* Properties of the decoders.                                             *)
(***************************************************************************)
\* The conversion failed: no tool, a non-zero exit, a timeout, or an output
\* shorter than a WAV header.
ConversionFailed ==
    \/ ~conv.available
    \/ conv.exit # "zero"
    \/ conv.size < WAV_HEADER_SIZE

\* C30: a conversion to PCM gives an error and no audio bytes whenever the
\* codec tool is unavailable, exits non-zero, times out or writes fewer
\* than 44 bytes, in the container decoder and in the mu-law decoder alike.
C30_FailedConversionIsError ==
    (conv.decoder \in {"decode_webm_audio", "_convert_ulaw_to_wav"} /\ ConversionFailed)
        => conv.result = NoValue

\* C31: when a run of the codec tool exceeds its timeout the process is
\* terminated and the conversion fails: after a conversion has returned no
\* process it started is still running, in the container decoder and in
\* both telephony converters.
C31_NoProcessLeftRunning ==
    conv.decoder # "none" =>
        /\ ~conv.running
        /\ (conv.available /\ conv.exit = "timeout") => conv.result = NoValue

(***************************************************************************)
(* Properties of the shared-secret endpoints.                              *)
(***************************************************************************)
\* C33: a JSON telephony endpoint authenticates a connection when the
\* valid shared secret comes in an Authorization: Bearer header or in the
\* token query parameter; the value of the header is used when a Bearer
\* header is present, the query parameter only when there is none.
C33_BearerHeaderBeforeQuery ==
    request # NoRequest =>
        LET c == request.conn
            bearer == request.authorization.scheme = "Bearer"
            used == IF bearer THEN request.authorization.value ELSE request.token
            authenticated == sid[c] # NoSid
        IN  /\ cred[c].value = used
            /\ authenticated <=> (telephony_token \notin {None, ""} /\ used = telephony_token)

\* A connection authenticated by its Bearer header though its query
\* parameter held a wrong token.
C33_Witness ==
    /\ request # NoRequest
    /\ request.authorization = [scheme |-> "Bearer", value |-> TELEPHONY_SECRET]
    /\ request.token = "wrong-secret"
    /\ sid[request.conn] # NoSid

\* C36: when no telephony secret is configured (unset or empty),
\* verify_telephony_token is false for every presented value, the absent
\* and the empty token included, so that no endpoint authenticated with the
\* shared secret accepts a connection; when a secret is configured, it is
\* true only for a token equal to it.
C36_UnconfiguredSecretAdmitsNobody ==
    \A c \in Conns :
        ep[c] \in {"telephony", "maqsam"} =>
            IF telephony_token \notin {None, ""} /\ cred[c].value = telephony_token
            THEN close_code[c] # CLOSE_UNAUTHORIZED
            ELSE pc[c] = "done" /\ close_code[c] = CLOSE_UNAUTHORIZED /\ ~accepted[c]

\* No secret is configured and a peer that presented just that (no token
\* where the variable is unset, the empty token where it is empty) was
\* refused by the endpoint that hands the token straight to the check.
C36_Witness ==
    \E c \in Conns :
        /\ ep[c] = "telephony"
        /\ telephony_token \in {None, ""}
        /\ cred[c].value = telephony_token
        /\ pc[c] = "done"
        /\ close_code[c] = CLOSE_UNAUTHORIZED
====
